---- MODULE Spec2Model ----
(***************************************************************************)
(* Model of the SEO content agent: the two article routes                  *)
(* (POST /generate, POST /generate/stream), the ContentGeneratorAgent      *)
(* pipeline (generate / generateStream), the DataForSEO request wrapper    *)
(* and the structured-response parsers.                                    *)
(*                                                                         *)
(* One run is modelled from request arrival to the end of the response.    *)
(* Every await / yield of the TypeScript code is a separate step.          *)
(* Texts are sequences of tokens (strings); a token stands for a run of    *)
(* characters that the regular expressions of the code treat as a unit.    *)
(***************************************************************************)
EXTENDS Integers, Sequences, FiniteSets, TLC

\* ------------------------------------------------------------------------
\* Bounds of the model
\* ------------------------------------------------------------------------

\* largest number of fragments the provider's stream produces in one run
MaxFragments == 2

\* ------------------------------------------------------------------------
\* Small helpers
\* ------------------------------------------------------------------------

Min(a, b) == IF a <= b THEN a ELSE b

Has(obj, f) == f \in DOMAIN obj

\* Math.ceil(n / d) for naturals
CeilDiv(n, d) == (n + d - 1) \div d

RECURSIVE Concat(_)
Concat(ss) == IF ss = <<>> THEN <<>> ELSE Head(ss) \o Concat(Tail(ss))

\* ------------------------------------------------------------------------
\* Request body and validation (GenerateArticleSchema)
\* ------------------------------------------------------------------------

Absent == 0 - 1

Topics == {"", "seo"}

TargetWordCounts == {Absent, 499, 3000, 10001}

LinkA == [url |-> "https://example.com/a", title |-> "A"]

LinkB == [url |-> "https://example.com/b", title |-> "B"]

\* input.internalLinks: given FALSE stands for an input without the field
NoLinks == [given |-> FALSE, links |-> <<>>]

\* a link whose url has no scheme
LinkC == [url |-> "example.com/c", title |-> "C"]

MalformedLinks == [given |-> TRUE, links |-> <<LinkA, LinkC>>]

LinkInputs == {NoLinks, [given |-> TRUE, links |-> <<LinkA, LinkB>>], MalformedLinks}

\* z.string().url(): the strings that new URL() accepts
IsUrl(u) == u \in {"https://example.com/a", "https://example.com/b"}

\* a schema that does not look at internalLinks
GenerateArticleSchema_NoLinkCheck(body) ==
    /\ body.topic # ""
    /\ \/ body.targetWordCount = Absent
       \/ (body.targetWordCount >= 500 /\ body.targetWordCount <= 10000)

\* z.object({ topic: z.string().min(1),
\*            targetWordCount: z.number().min(500).max(10000).optional(),
\*            internalLinks: z.array(z.object({ url: z.string().url(), ... })).optional() })
GenerateArticleSchema(body) ==
    /\ body.topic # ""
    /\ \/ body.targetWordCount = Absent
       \/ (body.targetWordCount >= 500 /\ body.targetWordCount <= 10000)
    /\ \A i \in 1..Len(body.internalLinks.links) : IsUrl(body.internalLinks.links[i].url)

\* req.query.provider === 'gemini' ? 'gemini' : 'openai'
Selectors == {"gemini", "openai", "other"}

AiProvider(selector) == IF selector = "gemini" THEN "gemini" ELSE "openai"

\* the route compares the selector with 'gemini' only: "other" stands for
\* every selector that is not 'gemini', the absent one and 'openai' included
RouteSelectors == {"gemini", "other"}

\* request bodies of the model: every topic with every targetWordCount; the
\* body with the explicit valid targetWordCount is the one that carries
\* links, well-formed or malformed
Bodies ==
    { b \in [topic : Topics, targetWordCount : TargetWordCounts, internalLinks : LinkInputs] :
        b.internalLinks.given <=> (b.topic = "seo" /\ b.targetWordCount = 3000) }

\* a mapping that takes the anchor text from the url
InternalLinks_UrlAsAnchor(input) ==
    IF input.internalLinks.given
    THEN [i \in 1..Len(input.internalLinks.links) |->
            [anchorText |-> input.internalLinks.links[i].url,
             url |-> input.internalLinks.links[i].url,
             placement |-> "body"]]
    ELSE <<>>

\* input.internalLinks?.map(link => ({ anchorText: link.title, url: link.url,
\* placement: 'body' })) || []
InternalLinks(input) ==
    IF input.internalLinks.given
    THEN [i \in 1..Len(input.internalLinks.links) |->
            [anchorText |-> input.internalLinks.links[i].title,
             url |-> input.internalLinks.links[i].url,
             placement |-> "body"]]
    ELSE <<>>

\* ------------------------------------------------------------------------
\* Research provider adapter (DataForSEOClient)
\* ------------------------------------------------------------------------

\* outcome of the fetch inside request(): an HTTP status, or 0 when fetch
\* itself (or reading the body) throws
NetFail == 0

HttpOutcomes == {200, 401, 429, 500, NetFail}

\* the error code request() throws with, "" when it returns the body
RequestError(http) ==
    IF http = NetFail THEN "NETWORK_ERROR"
    ELSE IF http = 200 THEN ""
    ELSE IF http = 401 THEN "AUTH_ERROR"
    ELSE IF http = 429 THEN "RATE_LIMIT"
    ELSE "API_ERROR"

\* response.ok: the status is in the range 200..299
ResponseOk(status) == status >= 200 /\ status <= 299

\* new DataForSEOError(message, code, statusCode)
DataForSEOError(code, statusCode) ==
    [name |-> "DataForSEOError", code |-> code, statusCode |-> statusCode]

\* an error that is no DataForSEOError: what fetch and response.json() throw
OtherError(name) == [name |-> name]

\* the try block of request(): d.fetch is "rejects" or "responds", d.status
\* the HTTP status, d.json whether the body can be read as JSON
RequestTry(d) ==
    IF d.fetch = "rejects"
    THEN [threw |-> TRUE, error |-> OtherError("TypeError")]
    ELSE IF ~ResponseOk(d.status)
    THEN [threw |-> TRUE,
          error |-> IF d.status = 401 THEN DataForSEOError("AUTH_ERROR", 401)
                    ELSE IF d.status = 429 THEN DataForSEOError("RATE_LIMIT", 429)
                    ELSE DataForSEOError("API_ERROR", d.status)]
    ELSE IF ~d.json
    THEN [threw |-> TRUE, error |-> OtherError("SyntaxError")]
    ELSE [threw |-> FALSE, value |-> d.payload]

\* a catch block that wraps whatever was thrown
RequestCatch_WrapAll(e) == DataForSEOError("NETWORK_ERROR", NetFail)

\* the catch block of request(): a DataForSEOError is thrown on, anything
\* else is wrapped (NetFail stands for the missing statusCode)
RequestCatch(e) ==
    IF e.name = "DataForSEOError" THEN e ELSE DataForSEOError("NETWORK_ERROR", NetFail)

\* request()
Request(d) ==
    IF RequestTry(d).threw
    THEN [threw |-> TRUE, error |-> RequestCatch(RequestTry(d).error)]
    ELSE RequestTry(d)

\* number of organic entries getSERPResults keeps
SerpDepth == 10

\* an entry of result.items: its position in the provider's list serves as
\* its rank_absolute and identifies its url, title and domain
SerpItem(type, position) == [type |-> type, rank_absolute |-> position, url |-> position]

\* provider payloads of the SERP endpoint: hasResult FALSE stands for a
\* response without tasks[0].result[0], hasItems FALSE for a result
\* without items
SerpPayloads ==
    { [hasResult |-> FALSE, hasItems |-> FALSE, items |-> <<>>],
      [hasResult |-> TRUE,  hasItems |-> TRUE,  items |-> <<>>],
      [hasResult |-> TRUE,  hasItems |-> TRUE,
       items |-> <<SerpItem("organic", 1), SerpItem("paid", 2), SerpItem("organic", 3)>>] }

IsOrganic(item) == item.type = "organic"

\* a getSERPResults that truncates before it filters
GetSERPResults_SliceFirst(keyword, payload) ==
    IF ~payload.hasResult
    THEN [keyword |-> keyword, totalResults |-> 0, items |-> <<>>]
    ELSE LET first == SubSeq(payload.items, 1, Min(Len(payload.items), SerpDepth))
             kept  == SelectSeq(first, IsOrganic)
         IN [keyword |-> keyword,
             totalResults |-> Len(payload.items),
             items |-> [i \in 1..Len(kept) |-> [rank |-> i, url |-> kept[i].url]]]

\* getSERPResults: filter organic, slice(0, 10), rank = index + 1; a result
\* without items gives no items (?. and || []); the length of the
\* provider's list stands for se_results_count
GetSERPResults(keyword, payload) ==
    IF ~payload.hasResult
    THEN [keyword |-> keyword, totalResults |-> 0, items |-> <<>>]
    ELSE LET organic == IF payload.hasItems
                        THEN SelectSeq(payload.items, IsOrganic)
                        ELSE <<>>
             kept    == SubSeq(organic, 1, Min(Len(organic), SerpDepth))
         IN [keyword |-> keyword,
             totalResults |-> Len(payload.items),
             items |-> [i \in 1..Len(kept) |-> [rank |-> i, url |-> kept[i].url]]]

\* getKeywordSuggestions: response.tasks?.[0]?.result?.[0]?.items || []
GetKeywordSuggestions(payload) ==
    IF payload.hasResult /\ payload.hasItems THEN payload.items ELSE <<>>

\* analyzeSERP, success branch: the text handed to the keyword prompt
FormatSERP(serpResult) ==
    <<"### SERP Analysis", "Keyword", serpResult.keyword>>
        \o (IF Len(serpResult.items) > 0 THEN <<"Top 10 Results">> ELSE <<>>)
        \o [i \in 1..Len(serpResult.items) |-> "item"]

SerpUnavailable == <<"SERP data unavailable.">>

\* provider payloads of the keyword-suggestions endpoint (number of items)
SuggestionPayloads == {0, 2}

\* formatKeywordSuggestions
FormatKeywordSuggestions(n) ==
    <<"### Keyword Suggestions", "Total Keywords Found">>
        \o (IF n > 0 THEN <<"Top Keywords by Volume">> ELSE <<>>)
        \o [i \in 1..Min(n, 30) |-> "keyword"]

SuggestionsUnavailable == <<"Keyword suggestions unavailable.">>

\* ------------------------------------------------------------------------
\* Generated text and the structured parsers
\* ------------------------------------------------------------------------

\* JSON values the provider can return inside braces
PlanJSON ==
    [primaryKeyword |-> [keyword |-> "test topic", searchVolume |-> 1000],
     secondaryKeywords |-> <<[keyword |-> "secondary 1"]>>,
     longTailClusters |-> <<>>,
     questions |-> <<[question |-> "What is test topic?"]>>,
     contentStructure |-> [h1 |-> "Test Topic Guide",
                           metaTitle |-> "Test Topic Guide | Complete Overview",
                           metaDescription |-> <<"Learn about test topic in this comprehensive guide.">>,
                           targetWordCount |-> 2000,
                           sections |-> <<>>],
     competitiveAnalysis |-> [totalKeywordsDiscovered |-> 50, contentGaps |-> <<>>]]

\* a plan whose contentStructure member is missing
PlanNoStructureJSON ==
    [primaryKeyword |-> [keyword |-> "test topic", searchVolume |-> 1000],
     secondaryKeywords |-> <<>>,
     longTailClusters |-> <<>>,
     questions |-> <<>>]

OutlineJSON ==
    [metadata |-> [primaryKeyword |-> "test topic",
                   h1 |-> "Outline H1",
                   metaTitle |-> "Outline meta title",
                   metaDescription |-> <<"Outline meta description">>,
                   targetWordCount |-> 1800],
     keyTakeaway |-> [mainAnswer |-> "answer", bullets |-> <<>>],
     introduction |-> [paragraphs |-> <<>>],
     sections |-> << [h2 |-> "Section"] >>,
     faq |-> <<>>,
     conclusion |-> [paragraphs |-> <<>>],
     citations |-> <<>>]

OtherJSON == [note |-> "not a plan"]

EmptyJSON == [f \in {} |-> ""]

SyntaxError == [syntaxError |-> TRUE]

\* JSON.parse of a span of tokens: the only spans that are one JSON value
\* are an object with no member and an object around one member list
JSONParse(span) ==
    IF span = <<"{", "}">> THEN EmptyJSON
    ELSE IF span = <<"{", "planMembers", "}">> THEN PlanJSON
    ELSE IF span = <<"{", "planNoStructure", "}">> THEN PlanNoStructureJSON
    ELSE IF span = <<"{", "outlineMembers", "}">> THEN OutlineJSON
    ELSE IF span = <<"{", "otherMembers", "}">> THEN OtherJSON
    ELSE SyntaxError

\* content.match(/\{[\s\S]*\}/): greedy, from the first "{" to the last "}"
FirstOpen(text) ==
    IF \E i \in 1..Len(text) : text[i] = "{"
    THEN CHOOSE i \in 1..Len(text) :
            text[i] = "{" /\ \A j \in 1..(i - 1) : text[j] # "{"
    ELSE 0

LastClose(text) ==
    IF \E i \in 1..Len(text) : text[i] = "}"
    THEN CHOOSE i \in 1..Len(text) :
            text[i] = "}" /\ \A j \in (i + 1)..Len(text) : text[j] # "}"
    ELSE 0

JsonMatch(text) ==
    IF FirstOpen(text) > 0 /\ LastClose(text) > FirstOpen(text)
    THEN SubSeq(text, FirstOpen(text), LastClose(text))
    ELSE <<>>

\* fallback structure of parseKeywordResearchResponse
FallbackPlan(topic) ==
    [primaryKeyword |-> [keyword |-> topic, searchVolume |-> 1000],
     secondaryKeywords |-> <<>>,
     longTailClusters |-> <<>>,
     questions |-> <<>>,
     contentStructure |-> [h1 |-> topic,
                           metaTitle |-> topic,
                           metaDescription |-> <<"Learn about ", topic>>,
                           targetWordCount |-> 2500,
                           sections |-> <<>>],
     competitiveAnalysis |-> [totalKeywordsDiscovered |-> 0, contentGaps |-> <<>>]]

\* a parser that returns an empty object when JSON.parse fails
parseKeywordResearchResponse_EmptyOnError(content, topic) ==
    IF JsonMatch(content) # <<>>
    THEN (IF JSONParse(JsonMatch(content)) # SyntaxError
          THEN JSONParse(JsonMatch(content))
          ELSE EmptyJSON)
    ELSE FallbackPlan(topic)

parseKeywordResearchResponse(content, topic) ==
    IF JsonMatch(content) # <<>> /\ JSONParse(JsonMatch(content)) # SyntaxError
    THEN JSONParse(JsonMatch(content))
    ELSE FallbackPlan(topic)

\* the fallback of parseOutlineResponse reads keywordResearch.primaryKeyword
\* and keywordResearch.contentStructure outside its try block
OutlineFallbackThrows(keywordResearch) ==
    ~(Has(keywordResearch, "primaryKeyword") /\ Has(keywordResearch, "contentStructure"))

FallbackOutline(keywordResearch) ==
    [metadata |-> [primaryKeyword |-> keywordResearch.primaryKeyword.keyword,
                   h1 |-> keywordResearch.contentStructure.h1,
                   metaTitle |-> keywordResearch.contentStructure.metaTitle,
                   metaDescription |-> keywordResearch.contentStructure.metaDescription,
                   targetWordCount |-> keywordResearch.contentStructure.targetWordCount],
     keyTakeaway |-> [mainAnswer |-> "", bullets |-> <<>>],
     introduction |-> [paragraphs |-> <<>>],
     sections |-> <<>>,
     faq |-> <<>>,
     conclusion |-> [paragraphs |-> <<>>],
     citations |-> <<>>]

OutlineParsed(content) ==
    JsonMatch(content) # <<>> /\ JSONParse(JsonMatch(content)) # SyntaxError

parseOutlineResponse(content, keywordResearch) ==
    IF OutlineParsed(content)
    THEN JSONParse(JsonMatch(content))
    ELSE FallbackOutline(keywordResearch)

\* ------------------------------------------------------------------------
\* Prompt assemblers: the property reads that throw a TypeError
\* ------------------------------------------------------------------------

\* buildOutlinePrompt reads primaryKeyword.keyword, secondaryKeywords.map
\* and questions.map
BuildOutlinePromptThrows(keywordResearch) ==
    ~(/\ Has(keywordResearch, "primaryKeyword")
      /\ Has(keywordResearch, "secondaryKeywords")
      /\ Has(keywordResearch, "questions"))

\* buildArticlePrompt reads keywordResearch.primaryKeyword.keyword and
\* outline.metadata.targetWordCount
BuildArticlePromptThrows(outline, keywordResearch) ==
    ~(Has(keywordResearch, "primaryKeyword") /\ Has(outline, "metadata"))

\* ------------------------------------------------------------------------
\* Article text: word count, reading time, references
\* ------------------------------------------------------------------------

\* tokens of an article text:
\*   "w" a one-letter word, "sp" a space, "nl" a newline, "md" one of the
\*   characters # * _ ` [ ] ( ), "refs" the text "## References",
\*   "num" a list marker "1.", "link" the text "[a](u)",
\*   "para" 200 one-letter words separated by single spaces
ArticleTokens == {"w", "sp", "nl", "md", "refs", "num", "link", "para"}

\* number of characters of a token
Width(t) ==
    IF t = "refs" THEN 13
    ELSE IF t = "link" THEN 6
    ELSE IF t = "num" THEN 2
    ELSE IF t = "para" THEN 399
    ELSE 1

RECURSIVE CharLength(_)
CharLength(text) ==
    IF text = <<>> THEN 0 ELSE Width(Head(text)) + CharLength(Tail(text))

\* text.replace(/[#*_`\[\]()]/g, ''): what is left of each token
Strip(t) ==
    IF t = "md" THEN <<>>
    ELSE IF t = "refs" THEN <<"sp", "w">>
    ELSE IF t \in {"sp", "nl"} THEN <<"sp">>
    ELSE IF t = "para" THEN <<"para">>
    ELSE <<"w">>

RECURSIVE StripAll(_)
StripAll(text) ==
    IF text = <<>> THEN <<>> ELSE Strip(Head(text)) \o StripAll(Tail(text))

\* split(/\s+/).filter(word => word.length > 0).length: the number of
\* maximal runs of non-blank characters; a "para" holds 200 of them, the
\* first of which continues a word that stands right before it
RECURSIVE CountRuns(_, _)
CountRuns(stripped, inWord) ==
    IF stripped = <<>> THEN 0
    ELSE IF Head(stripped) = "sp" THEN CountRuns(Tail(stripped), FALSE)
    ELSE IF Head(stripped) = "para"
         THEN (IF inWord THEN 199 ELSE 200) + CountRuns(Tail(stripped), TRUE)
    ELSE (IF inWord THEN 0 ELSE 1) + CountRuns(Tail(stripped), TRUE)

countWords(text) == CountRuns(StripAll(text), FALSE)

\* a reading time that rounds down
ReadingTime_RoundDown(wordCount) == [minutes |-> wordCount \div 200, unit |-> "min"]

\* `${Math.ceil(wordCount / 200)} min`
ReadingTime(wordCount) == [minutes |-> CeilDiv(wordCount, 200), unit |-> "min"]

\* content.match(/## References[\s\S]*$/i): from the first heading to the end
RefSection(content) ==
    IF \E i \in 1..Len(content) : content[i] = "refs"
    THEN LET first == CHOOSE i \in 1..Len(content) :
                         content[i] = "refs" /\ \A j \in 1..(i - 1) : content[j] # "refs"
         IN SubSeq(content, first, Len(content))
    ELSE <<>>

\* split('\n')
RECURSIVE SplitLines(_, _)
SplitLines(text, cur) ==
    IF text = <<>> THEN <<cur>>
    ELSE IF Head(text) = "nl" THEN <<cur>> \o SplitLines(Tail(text), <<>>)
    ELSE SplitLines(Tail(text), Append(cur, Head(text)))

\* line.match(/^\d+\./)
IsNumbered(line) == line # <<>> /\ Head(line) = "num"

\* the links of the model: "link" is the text "[a](u)", "link2" is "[b](v)"
LinkTokens == {"link", "link2"}

LinkOf(token) ==
    IF token = "link" THEN [source |-> "a", url |-> "u"]
    ELSE [source |-> "b", url |-> "v"]

HasLink(line) == \E i \in 1..Len(line) : line[i] \in LinkTokens

\* a matcher that keeps the last link of the line
FirstLink_Last(line) ==
    line[CHOOSE i \in 1..Len(line) :
            line[i] \in LinkTokens /\ \A j \in (i + 1)..Len(line) : line[j] \notin LinkTokens]

\* line.match(/\[([^\]]+)\]\(([^)]+)\)/): the first link of the line
FirstLink(line) ==
    line[CHOOSE i \in 1..Len(line) :
            line[i] \in LinkTokens /\ \A j \in 1..(i - 1) : line[j] \notin LinkTokens]

\* refLines.forEach((line, index) => ... number: index + 1)
RECURSIVE CollectReferences(_, _)
CollectReferences(refLines, index) ==
    IF refLines = <<>> THEN <<>>
    ELSE (IF HasLink(Head(refLines))
          THEN <<[number |-> index + 1,
                  source |-> LinkOf(FirstLink(Head(refLines))).source,
                  url |-> LinkOf(FirstLink(Head(refLines))).url]>>
          ELSE <<>>)
         \o CollectReferences(Tail(refLines), index + 1)

extractReferences(content) ==
    IF RefSection(content) = <<>> THEN <<>>
    ELSE CollectReferences(SelectSeq(SplitLines(RefSection(content), <<>>), IsNumbered), 0)

\* ------------------------------------------------------------------------
\* Inputs of the pipeline drawn from the collaborators
\* ------------------------------------------------------------------------

\* texts returned by the generation provider's complete()
PlanResponses ==
    { <<>>,
      <<"prose">>,
      <<"prose", "{", "planMembers", "}", "prose">>,
      <<"{", "planNoStructure", "}">>,
      <<"{", "otherMembers", "}">>,
      <<"{", "}">>,
      <<"{", "planMembers", "}", "prose", "{", "planMembers", "}">> }

OutlineResponses ==
    { <<"prose">>,
      <<"{", "outlineMembers", "}">>,
      <<"{", "otherMembers", "}">>,
      <<"{", "outlineMembers">> }

ArticleResponses ==
    { <<>>,
      <<"md", "sp", "w", "nl", "refs", "nl", "num", "sp", "link">>,
      <<"para", "sp", "w">> }

\* fragments yielded by the provider's stream(); never empty
\* (if (content) yield content)
Fragments ==
    { <<"md", "sp", "w", "nl">>,
      <<"refs", "nl", "num", "sp", "link">> }

TokenCounts == {0, 1000}

\* ways a generation call can end: "ok", or a thrown Error
GenerationOutcomes == {"ok", "api_error"}

\* ------------------------------------------------------------------------
\* State
\* ------------------------------------------------------------------------

VARIABLES
    pc,              \* position of the run
    via,             \* "route": through the Express route; "direct": the agent is called directly
    mode,            \* "buffered" (generate) or "stream" (generateStream)
    body,            \* request body / ArticleGenerationInput
    selector,        \* req.query.provider
    env,             \* which credentials process.env holds
    agent,           \* "none", "constructed", "failed"
    headersSent,     \* res.headersSent
    status,          \* HTTP status of the response, 0 while not set
    resBody,         \* JSON body of the response
    ended,           \* the response is finished
    events,          \* StreamEvents delivered to the consumer, in order
    calls,           \* collaborator calls issued, in order
    serpData,        \* result of analyzeSERP
    keywordData,     \* keyword suggestion text of performKeywordResearch
    keywordResearch, \* parsed keyword plan
    outline,         \* parsed outline
    articleContent,  \* article text received so far
    chunk,           \* fragment received and not yet yielded
    tokensUsed,      \* tokensUsed of the run
    outcome,         \* of the agent call: "none", "running", "resolved", "rejected"
    result,          \* ArticleGenerationOutput of a resolved run
    error,           \* message of the error that ended the run
    log,             \* console.error entries of the agent
    replies,         \* how each collaborator call ended, in call order
    received,        \* what the generation provider delivered, in order: the
                     \* token counts it reported and the article text
    request,         \* arguments of an adapter operation that is called on its own
    delivery,        \* what the provider delivers to that operation
    reader,          \* the provider's response stream held by OpenAIClient.stream
    locals,          \* local variables of that operation while it is suspended
    returned,        \* what the operation returned
    runs             \* the runs of a server that handles two requests at a time

\* state of the adapter operations called on their own and of the two-run server
unitVars == <<request, delivery, reader, locals, returned, runs>>

\* state of the run of one request
runVars == <<pc, via, mode, body, selector, env, agent, headersSent, status,
             resBody, ended, events, calls, serpData, keywordData,
             keywordResearch, outline, articleContent, chunk, tokensUsed,
             outcome, result, error, log, replies, received>>

\* the same without the position of the run
runVars_but_pc == <<via, mode, body, selector, env, agent, headersSent, status,
                    resBody, ended, events, calls, serpData, keywordData,
                    keywordResearch, outline, articleContent, chunk, tokensUsed,
                    outcome, result, error, log, replies, received>>

vars == <<runVars, unitVars>>

NoRequest == [none |-> TRUE]

NoDelivery == [none |-> TRUE]

NoLocals == [none |-> TRUE]

NoReturn == [none |-> TRUE]

\* no adapter operation is called on its own and there is one run
UnitsAtRest ==
    /\ request = NoRequest
    /\ delivery = NoDelivery
    /\ reader = "none"
    /\ locals = NoLocals
    /\ returned = NoReturn
    /\ runs = <<>>

Unset == [unset |-> TRUE]

NoResult == [success |-> FALSE]

NoBody == [empty |-> TRUE]

\* the direct callers of the agent are the tests: beforeEach sets the
\* DataForSEO and OpenAI credentials, the agent uses the openai backend and
\* the input has a topic (possibly empty) and no targetWordCount
TestSetup(b, sel, e) ==
    /\ b.targetWordCount = Absent
    /\ sel = "openai"
    /\ e = [dataforseo |-> TRUE, openai |-> TRUE, gemini |-> FALSE]

Init ==
    /\ pc = "start"
    /\ via \in {"route", "direct"}
    /\ mode \in {"buffered", "stream"}
    /\ body \in Bodies
    /\ selector \in Selectors
    /\ env \in [dataforseo : BOOLEAN, openai : BOOLEAN, gemini : BOOLEAN]
    /\ via = "direct" => TestSetup(body, selector, env)
    /\ via = "route" => selector \in RouteSelectors
    /\ agent = "none"
    /\ headersSent = FALSE
    /\ status = 0
    /\ resBody = NoBody
    /\ ended = FALSE
    /\ events = <<>>
    /\ calls = <<>>
    /\ serpData = <<>>
    /\ keywordData = <<>>
    /\ keywordResearch = Unset
    /\ outline = Unset
    /\ articleContent = <<>>
    /\ chunk = <<>>
    /\ tokensUsed = [keywordResearch |-> 0, outline |-> 0, article |-> 0]
    /\ outcome = "none"
    /\ result = NoResult
    /\ error = ""
    /\ log = <<>>
    /\ replies = <<>>
    /\ received = <<>>
    /\ UnitsAtRest

\* ------------------------------------------------------------------------
\* Failure paths
\* ------------------------------------------------------------------------

ErrorBody(code, message) ==
    [success |-> FALSE, code |-> code, message |-> message]

ErrorEvent(message) ==
    [type |-> "error", code |-> "GENERATION_ERROR", message |-> message]

\* catch block of router.post('/generate')
BufferedCatch(message) ==
    /\ status' = 500
    /\ resBody' = ErrorBody("GENERATION_ERROR", message)
    /\ ended' = TRUE
    /\ UNCHANGED events

\* a catch block that ends the response without writing the error event
StreamCatch_NoEvent(message) ==
    /\ ended' = TRUE
    /\ UNCHANGED <<status, resBody, events>>

\* a catch block that tests !res.headersSent
StreamCatch_Inverted(message) ==
    IF ~headersSent
    THEN /\ events' = Append(events, ErrorEvent(message))
         /\ ended' = TRUE
         /\ UNCHANGED <<status, resBody>>
    ELSE /\ status' = 500
         /\ resBody' = ErrorBody("GENERATION_ERROR", message)
         /\ ended' = TRUE
         /\ UNCHANGED events

\* catch block of router.post('/generate/stream')
StreamCatch(message) ==
    IF headersSent
    THEN /\ events' = Append(events, ErrorEvent(message))
         /\ ended' = TRUE
         /\ UNCHANGED <<status, resBody>>
    ELSE /\ status' = 500
         /\ resBody' = ErrorBody("GENERATION_ERROR", message)
         /\ ended' = TRUE
         /\ UNCHANGED events

\* an exception leaves the agent: the route's catch block handles it, a
\* direct caller sees the rejection
Throw(message) ==
    /\ pc' = "done"
    /\ error' = message
    /\ IF via = "route"
       THEN IF mode = "buffered" THEN BufferedCatch(message) ELSE StreamCatch(message)
       ELSE UNCHANGED <<status, resBody, ended, events>>

\* ------------------------------------------------------------------------
\* Route entry and agent construction
\* ------------------------------------------------------------------------

\* a streaming route that leaves the SSE headers unflushed until the first
\* event is written
Validate_NoFlush ==
    /\ pc = "start"
    /\ via = "route"
    /\ IF ~GenerateArticleSchema(body)
       THEN /\ pc' = "done"
            /\ status' = 400
            /\ resBody' = ErrorBody("VALIDATION_ERROR", "Invalid request body")
            /\ ended' = TRUE
            /\ UNCHANGED headersSent
       ELSE /\ pc' = "construct"
            /\ UNCHANGED <<headersSent, status, resBody, ended>>
    /\ UNCHANGED <<unitVars, via, mode, body, selector, env, received, agent, events, calls,
                   serpData, keywordData, keywordResearch, outline,
                   articleContent, chunk, tokensUsed, outcome, result,
                   error, log, replies>>

\* the route handlers up to the construction of the agent: safeParse, the
\* 400 answer, and in the streaming route the SSE headers with flushHeaders
Validate ==
    /\ pc = "start"
    /\ via = "route"
    /\ IF ~GenerateArticleSchema(body)
       THEN /\ pc' = "done"
            /\ status' = 400
            /\ resBody' = ErrorBody("VALIDATION_ERROR", "Invalid request body")
            /\ ended' = TRUE
            /\ UNCHANGED headersSent
       ELSE /\ pc' = "construct"
            /\ headersSent' = (mode = "stream")
            /\ status' = IF mode = "stream" THEN 200 ELSE status
            /\ UNCHANGED <<resBody, ended>>
    /\ UNCHANGED <<unitVars, via, mode, body, selector, env, received, agent, events, calls,
                   serpData, keywordData, keywordResearch, outline,
                   articleContent, chunk, tokensUsed, outcome, result,
                   error, log, replies>>

\* a caller that uses the agent without the route (the test suite)
DirectStart ==
    /\ pc = "start"
    /\ via = "direct"
    /\ pc' = "construct"
    /\ UNCHANGED <<unitVars, via, mode, body, selector, env, received, agent, headersSent, status,
                   resBody, ended, events, calls, serpData, keywordData,
                   keywordResearch, outline, articleContent, chunk,
                   tokensUsed, outcome, result, error, log, replies>>

AiKeyConfigured ==
    IF AiProvider(selector) = "gemini" THEN env.gemini ELSE env.openai

\* a research adapter that checks its credentials at the first request
\* instead of in its constructor
ConstructorError_Lazy ==
    IF ~AiKeyConfigured
    THEN (IF AiProvider(selector) = "gemini"
          THEN "Google AI API key not configured"
          ELSE "OpenAI API key not configured")
    ELSE ""

\* generation clients that accept an empty key and fail at the first request
ConstructorError_NoKeyCheck ==
    IF ~env.dataforseo THEN "DataForSEO credentials not configured"
    ELSE ""

\* message of the error the constructors throw, "" when they succeed:
\* DataForSEOClient first, then the client of the chosen backend
ConstructorError ==
    IF ~env.dataforseo THEN "DataForSEO credentials not configured"
    ELSE IF ~AiKeyConfigured
         THEN (IF AiProvider(selector) = "gemini"
               THEN "Google AI API key not configured"
               ELSE "OpenAI API key not configured")
    ELSE ""

\* new ContentGeneratorAgent({ aiProvider }) followed by the call of
\* generate / generateStream
Construct ==
    /\ pc = "construct"
    /\ IF ConstructorError # ""
       THEN /\ agent' = "failed"
            /\ Throw(ConstructorError)
            /\ UNCHANGED outcome
       ELSE /\ agent' = "constructed"
            /\ outcome' = "running"
            /\ pc' = IF mode = "stream" THEN "p5" ELSE "serp"
            /\ UNCHANGED <<status, resBody, ended, events, error>>
    /\ UNCHANGED <<unitVars, via, mode, body, selector, env, received, headersSent, calls,
                   serpData, keywordData, keywordResearch, outline,
                   articleContent, chunk, tokensUsed, result, log, replies>>

\* ------------------------------------------------------------------------
\* Progress events of generateStream
\* ------------------------------------------------------------------------

\* a checkpoint table with the last checkpoint at 90
Checkpoints_Typo ==
    [p5  |-> [phase |-> "serp_analysis",    progress |-> 5,  next |-> "serp"],
     p20 |-> [phase |-> "keyword_research", progress |-> 20, next |-> "sugg"],
     p35 |-> [phase |-> "keyword_research", progress |-> 35, next |-> "p40"],
     p40 |-> [phase |-> "outline",          progress |-> 40, next |-> "outline"],
     p55 |-> [phase |-> "outline",          progress |-> 55, next |-> "p60"],
     p60 |-> [phase |-> "article",          progress |-> 60, next |-> "article"],
     p95 |-> [phase |-> "article",          progress |-> 90, next |-> "complete"]]

\* a checkpoint table whose "keyword research complete" value is 45
Checkpoints_Decreasing ==
    [p5  |-> [phase |-> "serp_analysis",    progress |-> 5,  next |-> "serp"],
     p20 |-> [phase |-> "keyword_research", progress |-> 20, next |-> "sugg"],
     p35 |-> [phase |-> "keyword_research", progress |-> 45, next |-> "p40"],
     p40 |-> [phase |-> "outline",          progress |-> 40, next |-> "outline"],
     p55 |-> [phase |-> "outline",          progress |-> 55, next |-> "p60"],
     p60 |-> [phase |-> "article",          progress |-> 60, next |-> "article"],
     p95 |-> [phase |-> "article",          progress |-> 95, next |-> "complete"]]

\* a checkpoint table that goes from "keyword research complete" straight
\* to the outline call and announces the outline phase nowhere
Checkpoints_LateOutline ==
    [p5  |-> [phase |-> "serp_analysis",    progress |-> 5,  next |-> "serp"],
     p20 |-> [phase |-> "keyword_research", progress |-> 20, next |-> "sugg"],
     p35 |-> [phase |-> "keyword_research", progress |-> 35, next |-> "outline"],
     p40 |-> [phase |-> "outline",          progress |-> 40, next |-> "outline"],
     p55 |-> [phase |-> "outline",          progress |-> 55, next |-> "p60"],
     p60 |-> [phase |-> "article",          progress |-> 60, next |-> "article"],
     p95 |-> [phase |-> "article",          progress |-> 95, next |-> "complete"]]

Checkpoints ==
    [p5  |-> [phase |-> "serp_analysis",    progress |-> 5,  next |-> "serp"],
     p20 |-> [phase |-> "keyword_research", progress |-> 20, next |-> "sugg"],
     p35 |-> [phase |-> "keyword_research", progress |-> 35, next |-> "p40"],
     p40 |-> [phase |-> "outline",          progress |-> 40, next |-> "outline"],
     p55 |-> [phase |-> "outline",          progress |-> 55, next |-> "p60"],
     p60 |-> [phase |-> "article",          progress |-> 60, next |-> "article"],
     p95 |-> [phase |-> "article",          progress |-> 95, next |-> "complete"]]

ProgressEvent(cp) ==
    [type |-> "progress", phase |-> cp.phase, progress |-> cp.progress]

\* yield { type: 'progress', ... } and the route's res.write of it
EmitProgress ==
    /\ pc \in DOMAIN Checkpoints
    /\ events' = Append(events, ProgressEvent(Checkpoints[pc]))
    /\ pc' = Checkpoints[pc].next
    /\ UNCHANGED <<unitVars, via, mode, body, selector, env, received, agent, headersSent, status,
                   resBody, ended, calls, serpData, keywordData,
                   keywordResearch, outline, articleContent, chunk,
                   tokensUsed, outcome, result, error, log, replies>>

\* ------------------------------------------------------------------------
\* Phase 1: SERP analysis
\* ------------------------------------------------------------------------

\* analyzeSERP: this.dataForSEO.getSERPResults({ keyword: topic })
IssueSERP ==
    /\ pc = "serp"
    /\ calls' = Append(calls, [op |-> "serp", keyword |-> body.topic])
    /\ pc' = "serp_wait"
    /\ UNCHANGED <<unitVars, via, mode, body, selector, env, received, agent, headersSent, status,
                   resBody, ended, events, serpData, keywordData,
                   keywordResearch, outline, articleContent, chunk,
                   tokensUsed, outcome, result, error, log, replies>>

\* an analyzeSERP that repeats the fetch once after a throttled or failed
\* request
ReturnSERP_Retry ==
    /\ pc = "serp_wait"
    /\ \E http \in HttpOutcomes, payload \in SerpPayloads :
          IF RequestError(http) = ""
          THEN /\ serpData' = FormatSERP(GetSERPResults(body.topic, payload))
               /\ replies' = Append(replies, "ok")
               /\ pc' = IF mode = "stream" THEN "p20" ELSE "sugg"
               /\ UNCHANGED log
          ELSE IF RequestError(http) \in {"RATE_LIMIT", "NETWORK_ERROR"} /\ Len(calls) < 2
          THEN /\ replies' = Append(replies, RequestError(http))
               /\ pc' = "serp"
               /\ UNCHANGED <<serpData, log>>
          ELSE /\ serpData' = SerpUnavailable
               /\ replies' = Append(replies, RequestError(http))
               /\ pc' = IF mode = "stream" THEN "p20" ELSE "sugg"
               /\ log' = Append(log, [at |-> "serp", code |-> RequestError(http)])
    /\ UNCHANGED <<unitVars, via, mode, body, selector, env, received, agent, headersSent, status,
                   resBody, ended, events, calls, keywordData,
                   keywordResearch, outline, articleContent, chunk,
                   tokensUsed, outcome, result, error>>

\* the research call returns or throws; analyzeSERP catches every error
ReturnSERP ==
    /\ pc = "serp_wait"
    /\ \E http \in HttpOutcomes, payload \in SerpPayloads :
          IF RequestError(http) = ""
          THEN /\ serpData' = FormatSERP(GetSERPResults(body.topic, payload))
               /\ replies' = Append(replies, "ok")
               /\ UNCHANGED log
          ELSE /\ serpData' = SerpUnavailable
               /\ replies' = Append(replies, RequestError(http))
               /\ log' = Append(log, [at |-> "serp", code |-> RequestError(http)])
    /\ pc' = IF mode = "stream" THEN "p20" ELSE "sugg"
    /\ UNCHANGED <<unitVars, via, mode, body, selector, env, received, agent, headersSent, status,
                   resBody, ended, events, calls, keywordData,
                   keywordResearch, outline, articleContent, chunk,
                   tokensUsed, outcome, result, error>>

\* ------------------------------------------------------------------------
\* Phase 2: keyword research
\* ------------------------------------------------------------------------

\* performKeywordResearch: this.dataForSEO.getKeywordSuggestions({ keyword: topic })
IssueSuggestions ==
    /\ pc = "sugg"
    /\ calls' = Append(calls, [op |-> "suggestions", keyword |-> body.topic])
    /\ pc' = "sugg_wait"
    /\ UNCHANGED <<unitVars, via, mode, body, selector, env, received, agent, headersSent, status,
                   resBody, ended, events, serpData, keywordData,
                   keywordResearch, outline, articleContent, chunk,
                   tokensUsed, outcome, result, error, log, replies>>

ReturnSuggestions ==
    /\ pc = "sugg_wait"
    /\ \E http \in HttpOutcomes, n \in SuggestionPayloads :
          IF RequestError(http) = ""
          THEN /\ keywordData' = FormatKeywordSuggestions(n)
               /\ replies' = Append(replies, "ok")
               /\ UNCHANGED log
          ELSE /\ keywordData' = SuggestionsUnavailable
               /\ replies' = Append(replies, RequestError(http))
               /\ log' = Append(log, [at |-> "suggestions", code |-> RequestError(http)])
    /\ pc' = "kw"
    /\ UNCHANGED <<unitVars, via, mode, body, selector, env, received, agent, headersSent, status,
                   resBody, ended, events, calls, serpData,
                   keywordResearch, outline, articleContent, chunk,
                   tokensUsed, outcome, result, error>>

\* buildKeywordResearchPrompt and this.aiClient.complete({ temperature: 0.3 });
\* temperatures are in tenths
IssueKeywordPlan ==
    /\ pc = "kw"
    /\ calls' = Append(calls, [op |-> "keywordPlan",
                               backend |-> AiProvider(selector),
                               method |-> "complete",
                               temperature |-> 3,
                               prompt |-> <<body.topic>> \o serpData \o keywordData])
    /\ pc' = "kw_wait"
    /\ UNCHANGED <<unitVars, via, mode, body, selector, env, received, agent, headersSent, status,
                   resBody, ended, events, serpData, keywordData,
                   keywordResearch, outline, articleContent, chunk,
                   tokensUsed, outcome, result, error, log, replies>>

GenerationError == "generation provider error"

\* a performKeywordResearch that catches the provider's error and goes on
\* with the fallback plan, as the research calls do
ReturnKeywordPlan_Degrade ==
    /\ pc = "kw_wait"
    /\ \E o \in GenerationOutcomes, text \in PlanResponses, tokens \in TokenCounts :
       /\ replies' = Append(replies, o)
       /\ received' = IF o = "ok"
                      THEN Append(received, [op |-> "keywordPlan", tokens |-> tokens])
                      ELSE received
       /\ keywordResearch' = IF o = "ok"
                             THEN parseKeywordResearchResponse(text, body.topic)
                             ELSE FallbackPlan(body.topic)
       /\ tokensUsed' = [tokensUsed EXCEPT !.keywordResearch = IF o = "ok" THEN tokens ELSE 0]
       /\ pc' = IF mode = "stream" THEN "p35" ELSE "outline"
    /\ UNCHANGED <<unitVars, via, mode, body, selector, env, agent, headersSent, calls,
                   serpData, keywordData, outline, articleContent, chunk,
                   result, log, status, resBody, ended, events, error, outcome>>

ReturnKeywordPlan ==
    /\ pc = "kw_wait"
    /\ \E o \in GenerationOutcomes, text \in PlanResponses, tokens \in TokenCounts :
       /\ replies' = Append(replies, o)
       /\ received' = IF o = "ok"
                      THEN Append(received, [op |-> "keywordPlan", tokens |-> tokens])
                      ELSE received
       /\ IF o = "ok"
          THEN /\ keywordResearch' = parseKeywordResearchResponse(text, body.topic)
               /\ tokensUsed' = [tokensUsed EXCEPT !.keywordResearch = tokens]
               /\ pc' = IF mode = "stream" THEN "p35" ELSE "outline"
               /\ UNCHANGED <<status, resBody, ended, events, error, outcome>>
          ELSE /\ Throw(GenerationError)
               /\ outcome' = "rejected"
               /\ UNCHANGED <<keywordResearch, tokensUsed>>
    /\ UNCHANGED <<unitVars, via, mode, body, selector, env, agent, headersSent, calls,
                   serpData, keywordData, outline, articleContent, chunk,
                   result, log>>

\* ------------------------------------------------------------------------
\* Phase 3: outline
\* ------------------------------------------------------------------------

\* generateOutline: buildOutlinePrompt, then this.aiClient.complete
IssueOutline ==
    /\ pc = "outline"
    /\ IF BuildOutlinePromptThrows(keywordResearch)
       THEN /\ Throw("TypeError")
            /\ outcome' = "rejected"
            /\ UNCHANGED calls
       ELSE /\ calls' = Append(calls, [op |-> "outline",
                                       backend |-> AiProvider(selector),
                                       method |-> "complete",
                                       temperature |-> 3,
                                       prompt |-> <<keywordResearch.primaryKeyword.keyword>>
                                           \o [i \in 1..Len(body.internalLinks.links) |->
                                                  body.internalLinks.links[i].title]])
            /\ pc' = "outline_wait"
            /\ UNCHANGED <<status, resBody, ended, events, error, outcome>>
    /\ UNCHANGED <<unitVars, via, mode, body, selector, env, received, agent, headersSent,
                   serpData, keywordData, keywordResearch, outline,
                   articleContent, chunk, tokensUsed, result, log, replies>>

\* a generateOutline that asks the provider again when the answer cannot
\* be parsed
ReturnOutline_RetryParse ==
    /\ pc = "outline_wait"
    /\ \E o \in GenerationOutcomes, text \in OutlineResponses, tokens \in TokenCounts :
       /\ replies' = Append(replies, o)
       /\ received' = IF o = "ok"
                      THEN Append(received, [op |-> "outline", tokens |-> tokens])
                      ELSE received
       /\ IF o = "ok" /\ OutlineParsed(text)
          THEN /\ outline' = parseOutlineResponse(text, keywordResearch)
               /\ tokensUsed' = [tokensUsed EXCEPT !.outline = tokens]
               /\ pc' = IF mode = "stream" THEN "p55" ELSE "article"
               /\ UNCHANGED <<status, resBody, ended, events, error, outcome>>
          ELSE IF o = "ok" /\ Len(calls) < 5
          THEN /\ pc' = "outline"
               /\ UNCHANGED <<outline, tokensUsed, status, resBody, ended,
                              events, error, outcome>>
          ELSE /\ Throw(GenerationError)
               /\ outcome' = "rejected"
               /\ UNCHANGED <<outline, tokensUsed>>
    /\ UNCHANGED <<unitVars, via, mode, body, selector, env, agent, headersSent, calls,
                   serpData, keywordData, keywordResearch, articleContent,
                   chunk, result, log>>

ReturnOutline ==
    /\ pc = "outline_wait"
    /\ \E o \in GenerationOutcomes, text \in OutlineResponses, tokens \in TokenCounts :
       /\ replies' = Append(replies, o)
       /\ received' = IF o = "ok"
                      THEN Append(received, [op |-> "outline", tokens |-> tokens])
                      ELSE received
       /\ IF o = "ok" /\ (OutlineParsed(text) \/ ~OutlineFallbackThrows(keywordResearch))
          THEN /\ outline' = parseOutlineResponse(text, keywordResearch)
               /\ tokensUsed' = [tokensUsed EXCEPT !.outline = tokens]
               /\ pc' = IF mode = "stream" THEN "p55" ELSE "article"
               /\ UNCHANGED <<status, resBody, ended, events, error, outcome>>
          ELSE /\ Throw(IF o = "ok" THEN "TypeError" ELSE GenerationError)
               /\ outcome' = "rejected"
               /\ UNCHANGED <<outline, tokensUsed>>
    /\ UNCHANGED <<unitVars, via, mode, body, selector, env, agent, headersSent, calls,
                   serpData, keywordData, keywordResearch, articleContent,
                   chunk, result, log>>

\* ------------------------------------------------------------------------
\* Phase 4: article
\* ------------------------------------------------------------------------

\* an article call with the temperature of the structured phases
IssueArticle_Cool ==
    /\ pc = "article"
    /\ IF BuildArticlePromptThrows(outline, keywordResearch)
       THEN /\ Throw("TypeError")
            /\ outcome' = "rejected"
            /\ UNCHANGED calls
       ELSE /\ calls' = Append(calls, [op |-> "article",
                                       backend |-> AiProvider(selector),
                                       method |-> IF mode = "stream" THEN "stream" ELSE "complete",
                                       temperature |-> 3,
                                       maxTokens |-> 8000,
                                       prompt |-> <<keywordResearch.primaryKeyword.keyword>>])
            /\ pc' = IF mode = "stream" THEN "frag_wait" ELSE "article_wait"
            /\ UNCHANGED <<status, resBody, ended, events, error, outcome>>
    /\ UNCHANGED <<unitVars, via, mode, body, selector, env, received, agent, headersSent,
                   serpData, keywordData, keywordResearch, outline,
                   articleContent, chunk, tokensUsed, result, log, replies>>

\* writeArticle / writeArticleStream: buildArticlePrompt, then
\* this.aiClient.complete or this.aiClient.stream with temperature 0.7
IssueArticle ==
    /\ pc = "article"
    /\ IF BuildArticlePromptThrows(outline, keywordResearch)
       THEN /\ Throw("TypeError")
            /\ outcome' = "rejected"
            /\ UNCHANGED calls
       ELSE /\ calls' = Append(calls, [op |-> "article",
                                       backend |-> AiProvider(selector),
                                       method |-> IF mode = "stream" THEN "stream" ELSE "complete",
                                       temperature |-> 7,
                                       maxTokens |-> 8000,
                                       prompt |-> <<keywordResearch.primaryKeyword.keyword>>])
            /\ pc' = IF mode = "stream" THEN "frag_wait" ELSE "article_wait"
            /\ UNCHANGED <<status, resBody, ended, events, error, outcome>>
    /\ UNCHANGED <<unitVars, via, mode, body, selector, env, received, agent, headersSent,
                   serpData, keywordData, keywordResearch, outline,
                   articleContent, chunk, tokensUsed, result, log, replies>>

\* the value generate returns
BuildResult(content, tokens) ==
    [success |-> TRUE,
     data |-> [article |-> [title |-> outline.metadata.h1,
                            content |-> content,
                            wordCount |-> countWords(content),
                            readingTime |-> ReadingTime(countWords(content))],
               seo |-> [metaTitle |-> outline.metadata.metaTitle,
                        metaDescription |-> outline.metadata.metaDescription,
                        primaryKeyword |-> keywordResearch.primaryKeyword.keyword,
                        secondaryKeywords |->
                            [i \in 1..Len(keywordResearch.secondaryKeywords) |->
                                keywordResearch.secondaryKeywords[i].keyword]],
               outline |-> outline,
               keywordResearch |-> keywordResearch,
               references |-> extractReferences(content),
               internalLinks |-> InternalLinks(body)],
     metadata |-> [tokensUsed |-> tokens]]

\* a complete event that leaves the links of the input out
CompleteData_NoLinks(content, tokens) ==
    [success |-> TRUE,
     data |-> [article |-> [title |-> outline.metadata.h1,
                            content |-> content,
                            wordCount |-> countWords(content),
                            readingTime |-> ReadingTime(countWords(content))],
               seo |-> [metaTitle |-> outline.metadata.metaTitle,
                        metaDescription |-> outline.metadata.metaDescription,
                        primaryKeyword |-> keywordResearch.primaryKeyword.keyword,
                        secondaryKeywords |->
                            [i \in 1..Len(keywordResearch.secondaryKeywords) |->
                                keywordResearch.secondaryKeywords[i].keyword]],
               outline |-> outline,
               keywordResearch |-> keywordResearch,
               references |-> extractReferences(content),
               internalLinks |-> <<>>],
     metadata |-> [tokensUsed |-> tokens]]

\* the data of the complete event of generateStream
CompleteData(content, tokens) ==
    [success |-> TRUE,
     data |-> [article |-> [title |-> outline.metadata.h1,
                            content |-> content,
                            wordCount |-> countWords(content),
                            readingTime |-> ReadingTime(countWords(content))],
               seo |-> [metaTitle |-> outline.metadata.metaTitle,
                        metaDescription |-> outline.metadata.metaDescription,
                        primaryKeyword |-> keywordResearch.primaryKeyword.keyword,
                        secondaryKeywords |->
                            [i \in 1..Len(keywordResearch.secondaryKeywords) |->
                                keywordResearch.secondaryKeywords[i].keyword]],
               outline |-> outline,
               keywordResearch |-> keywordResearch,
               references |-> extractReferences(content),
               internalLinks |-> InternalLinks(body)],
     metadata |-> [tokensUsed |-> tokens]]

\* buffered mode: the article call returns, generate builds its result and
\* the route answers res.json(result); or the call throws
ReturnArticle ==
    /\ pc = "article_wait"
    /\ \E o \in GenerationOutcomes, text \in ArticleResponses, tokens \in TokenCounts :
       /\ replies' = Append(replies, o)
       /\ received' = IF o = "ok"
                      THEN Append(received, [op |-> "article", text |-> text, tokens |-> tokens])
                      ELSE received
       /\ IF o = "ok"
          THEN /\ articleContent' = text
               /\ tokensUsed' = [tokensUsed EXCEPT !.article = tokens]
               /\ result' = BuildResult(text, tokensUsed')
               /\ outcome' = "resolved"
               /\ pc' = "done"
               /\ IF via = "route"
                  THEN /\ status' = 200
                       /\ resBody' = result'
                       /\ ended' = TRUE
                  ELSE UNCHANGED <<status, resBody, ended>>
               /\ UNCHANGED <<events, error>>
          ELSE /\ Throw(GenerationError)
               /\ outcome' = "rejected"
               /\ UNCHANGED <<articleContent, tokensUsed, result>>
    /\ UNCHANGED <<unitVars, via, mode, body, selector, env, agent, headersSent, calls,
                   serpData, keywordData, keywordResearch, outline, chunk, log>>

IsChunk(e) == e.type = "chunk"

\* a loop that assigns the fragment to articleContent instead of appending
ReceiveFragment_Overwrite ==
    /\ pc = "frag_wait"
    /\ Len(SelectSeq(events, IsChunk)) < MaxFragments
    /\ \E f \in Fragments :
          /\ articleContent' = f
          /\ chunk' = f
          /\ received' = Append(received, [op |-> "fragment", text |-> f])
    /\ pc' = "chunk"
    /\ UNCHANGED <<unitVars, via, mode, body, selector, env, agent, headersSent, status,
                   resBody, ended, events, calls, serpData, keywordData,
                   keywordResearch, outline, tokensUsed, outcome, result,
                   error, log, replies>>

\* streaming mode: the provider's stream yields the next fragment;
\* articleContent += chunk
ReceiveFragment ==
    /\ pc = "frag_wait"
    /\ Len(SelectSeq(events, IsChunk)) < MaxFragments
    /\ \E f \in Fragments :
          /\ articleContent' = articleContent \o f
          /\ chunk' = f
          /\ received' = Append(received, [op |-> "fragment", text |-> f])
    /\ pc' = "chunk"
    /\ UNCHANGED <<unitVars, via, mode, body, selector, env, agent, headersSent, status,
                   resBody, ended, events, calls, serpData, keywordData,
                   keywordResearch, outline, tokensUsed, outcome, result,
                   error, log, replies>>

\* a loop that yields the text accumulated so far instead of the fragment
EmitChunk_Accumulated ==
    /\ pc = "chunk"
    /\ events' = Append(events, [type |-> "chunk", content |-> articleContent])
    /\ chunk' = <<>>
    /\ pc' = "frag_wait"
    /\ UNCHANGED <<unitVars, via, mode, body, selector, env, received, agent, headersSent, status,
                   resBody, ended, calls, serpData, keywordData,
                   keywordResearch, outline, articleContent, tokensUsed,
                   outcome, result, error, log, replies>>

\* yield { type: 'chunk', data: { content: chunk } }
EmitChunk ==
    /\ pc = "chunk"
    /\ events' = Append(events, [type |-> "chunk", content |-> chunk])
    /\ chunk' = <<>>
    /\ pc' = "frag_wait"
    /\ UNCHANGED <<unitVars, via, mode, body, selector, env, received, agent, headersSent, status,
                   resBody, ended, calls, serpData, keywordData,
                   keywordResearch, outline, articleContent, tokensUsed,
                   outcome, result, error, log, replies>>

\* an estimate that rounds down
StreamExhausted_Floor ==
    /\ pc = "frag_wait"
    /\ replies' = Append(replies, "ok")
    /\ tokensUsed' = [tokensUsed EXCEPT !.article = CharLength(articleContent) \div 4]
    /\ pc' = "p95"
    /\ UNCHANGED <<unitVars, via, mode, body, selector, env, received, agent, headersSent, status,
                   resBody, ended, events, calls, serpData, keywordData,
                   keywordResearch, outline, articleContent, chunk, outcome,
                   result, error, log>>

\* the provider's stream is exhausted:
\* tokensUsed.article = Math.ceil(articleContent.length / 4)
StreamExhausted ==
    /\ pc = "frag_wait"
    /\ replies' = Append(replies, "ok")
    /\ tokensUsed' = [tokensUsed EXCEPT !.article = CeilDiv(CharLength(articleContent), 4)]
    /\ pc' = "p95"
    /\ UNCHANGED <<unitVars, via, mode, body, selector, env, received, agent, headersSent, status,
                   resBody, ended, events, calls, serpData, keywordData,
                   keywordResearch, outline, articleContent, chunk, outcome,
                   result, error, log>>

\* the provider's stream throws (request refused, or a read fails)
StreamFails ==
    /\ pc = "frag_wait"
    /\ replies' = Append(replies, "api_error")
    /\ Throw(GenerationError)
    /\ outcome' = "rejected"
    /\ UNCHANGED <<unitVars, via, mode, body, selector, env, received, agent, headersSent, calls,
                   serpData, keywordData, keywordResearch, outline,
                   articleContent, chunk, tokensUsed, result, log>>

\* yield { type: 'complete', data: ... }
EmitComplete ==
    /\ pc = "complete"
    /\ result' = CompleteData(articleContent, tokensUsed)
    /\ events' = Append(events, [type |-> "complete", data |-> result'])
    /\ pc' = "end"
    /\ UNCHANGED <<unitVars, via, mode, body, selector, env, received, agent, headersSent, status,
                   resBody, ended, calls, serpData, keywordData,
                   keywordResearch, outline, articleContent, chunk,
                   tokensUsed, outcome, error, log, replies>>

\* the generator returns; the route's loop ends and it calls res.end()
EndStream ==
    /\ pc = "end"
    /\ outcome' = "resolved"
    /\ ended' = (via = "route")
    /\ pc' = "done"
    /\ UNCHANGED <<unitVars, via, mode, body, selector, env, received, agent, headersSent, status,
                   resBody, events, calls, serpData, keywordData,
                   keywordResearch, outline, articleContent, chunk,
                   tokensUsed, result, error, log, replies>>

\* ------------------------------------------------------------------------
\* Specification
\* ------------------------------------------------------------------------

Next ==
    \/ Validate
    \/ DirectStart
    \/ Construct
    \/ EmitProgress
    \/ IssueSERP
    \/ ReturnSERP
    \/ IssueSuggestions
    \/ ReturnSuggestions
    \/ IssueKeywordPlan
    \/ ReturnKeywordPlan
    \/ IssueOutline
    \/ ReturnOutline
    \/ IssueArticle
    \/ ReturnArticle
    \/ ReceiveFragment
    \/ EmitChunk
    \/ StreamExhausted
    \/ StreamFails
    \/ EmitComplete
    \/ EndStream

Spec == Init /\ [][Next]_vars

\* ------------------------------------------------------------------------
\* The structured parsers called on their own
\* ------------------------------------------------------------------------

\* longest generated text, in tokens
MaxTextLen == 3

GenTokens ==
    {"{", "}", "planMembers", "planNoStructure", "outlineMembers", "otherMembers", "prose"}

\* one JSON object with prose before and after it
ProseAroundTexts ==
    { <<"prose", "{", m, "}", "prose">> : m \in {"planMembers", "outlineMembers"} }

\* two JSON objects separated by prose
TwoObjectTexts ==
    { <<"{", a, "}", "prose", "{", b, "}">> : a, b \in {"planMembers", "outlineMembers"} }

GeneratedTexts ==
    UNION { [1..n -> GenTokens] : n \in 0..MaxTextLen }
        \cup ProseAroundTexts \cup TwoObjectTexts

\* an agent of the test suite that has issued no call
AgentAtRest ==
    /\ via = "direct"
    /\ mode = "buffered"
    /\ TestSetup(body, selector, env)
    /\ agent = "constructed"
    /\ headersSent = FALSE
    /\ status = 0
    /\ resBody = NoBody
    /\ ended = FALSE
    /\ events = <<>>
    /\ calls = <<>>
    /\ serpData = <<>>
    /\ keywordData = <<>>
    /\ chunk = <<>>
    /\ tokensUsed = [keywordResearch |-> 0, outline |-> 0, article |-> 0]
    /\ outcome = "none"
    /\ result = NoResult
    /\ error = ""
    /\ log = <<>>
    /\ replies = <<>>
    /\ received = <<>>

\* the plans generateOutline can hand to parseOutlineResponse: what the plan
\* parser returns and buildOutlinePrompt accepts
PlansForOutline(topic) ==
    { p \in { parseKeywordResearchResponse(t, topic) : t \in GeneratedTexts } :
        ~BuildOutlinePromptThrows(p) }

ParsersInit ==
    /\ pc \in {"parse_plan", "parse_outline"}
    /\ body \in Bodies
    /\ selector \in Selectors
    /\ env \in [dataforseo : BOOLEAN, openai : BOOLEAN, gemini : BOOLEAN]
    /\ AgentAtRest
    /\ keywordResearch \in (IF pc = "parse_plan" THEN {Unset} ELSE PlansForOutline(body.topic))
    /\ outline = Unset
    /\ articleContent = <<>>
    /\ UnitsAtRest

\* this.parseKeywordResearchResponse(response.content, topic)
ParsePlanCall ==
    /\ pc = "parse_plan"
    /\ \E text \in GeneratedTexts :
          /\ received' = <<[op |-> "keywordPlan", text |-> text, tokens |-> 0]>>
          /\ keywordResearch' = parseKeywordResearchResponse(text, body.topic)
    /\ pc' = "returned"
    /\ UNCHANGED <<unitVars, via, mode, body, selector, env, agent, headersSent, status,
                   resBody, ended, events, calls, serpData, keywordData,
                   outline, articleContent, chunk, tokensUsed, outcome,
                   result, error, log, replies>>

\* this.parseOutlineResponse(response.content, keywordResearch): the parsed
\* value, the fallback, or the TypeError of the fallback's property reads
ParseOutlineCall ==
    /\ pc = "parse_outline"
    /\ \E text \in GeneratedTexts :
          /\ received' = <<[op |-> "outline", text |-> text, tokens |-> 0]>>
          /\ IF ~OutlineParsed(text) /\ OutlineFallbackThrows(keywordResearch)
             THEN /\ error' = "TypeError"
                  /\ pc' = "raised"
                  /\ UNCHANGED outline
             ELSE /\ outline' = parseOutlineResponse(text, keywordResearch)
                  /\ pc' = "returned"
                  /\ UNCHANGED error
    /\ UNCHANGED <<unitVars, via, mode, body, selector, env, agent, headersSent, status,
                   resBody, ended, events, calls, serpData, keywordData,
                   keywordResearch, articleContent, chunk, tokensUsed,
                   outcome, result, log, replies>>

ParsersNext == ParsePlanCall \/ ParseOutlineCall

SpecParsers == ParsersInit /\ [][ParsersNext]_vars

\* ------------------------------------------------------------------------
\* Reference extraction called on its own
\* ------------------------------------------------------------------------

\* longest article text, in tokens
MaxArticleLen == 6

RefTokens == {"refs", "nl", "num", "link", "link2", "w"}

\* a numbered link line before the heading and a two-link line after it
MixedArticleTexts ==
    { <<"num", a, "nl", "refs", "nl", "num", b, c>> : a, b, c \in LinkTokens }

ArticleTexts ==
    UNION { [1..n -> RefTokens] : n \in 0..MaxArticleLen } \cup MixedArticleTexts

ReferencesInit ==
    /\ pc = "extract"
    /\ body \in Bodies
    /\ selector \in Selectors
    /\ env \in [dataforseo : BOOLEAN, openai : BOOLEAN, gemini : BOOLEAN]
    /\ AgentAtRest
    /\ body.topic = "seo"
    /\ keywordResearch = Unset
    /\ outline = Unset
    /\ articleContent \in ArticleTexts
    /\ UnitsAtRest

\* const references = this.extractReferences(articleContent)
ExtractReferencesCall ==
    /\ pc = "extract"
    /\ result' = [references |-> extractReferences(articleContent)]
    /\ pc' = "extracted"
    /\ UNCHANGED <<unitVars, via, mode, body, selector, env, agent, headersSent, status,
                   resBody, ended, events, calls, serpData, keywordData,
                   keywordResearch, outline, articleContent, chunk,
                   tokensUsed, outcome, error, log, replies, received>>

\* a second call on the same text
ExtractReferencesAgain ==
    /\ pc = "extracted"
    /\ result' = [references |-> result.references,
                  again |-> extractReferences(articleContent)]
    /\ pc' = "extracted_again"
    /\ UNCHANGED <<unitVars, via, mode, body, selector, env, agent, headersSent, status,
                   resBody, ended, events, calls, serpData, keywordData,
                   keywordResearch, outline, articleContent, chunk,
                   tokensUsed, outcome, error, log, replies, received>>

ReferencesNext == ExtractReferencesCall \/ ExtractReferencesAgain

SpecReferences == ReferencesInit /\ [][ReferencesNext]_vars

\* ------------------------------------------------------------------------
\* The research adapter called on its own
\* ------------------------------------------------------------------------

\* longest list of entries in a provider result
MaxSerpItems == 12

HttpStatuses == {200, 204, 304, 401, 403, 429, 500, 503}

\* the lists of entries: organic and other entries in every order
ProviderLists ==
    { [i \in 1..Len(types) |-> SerpItem(types[i], i)] :
        types \in UNION { [1..n -> {"organic", "paid"}] : n \in 1..MaxSerpItems } }

ProviderPayloads ==
    { [hasResult |-> FALSE, hasItems |-> FALSE, items |-> <<>>],
      [hasResult |-> TRUE,  hasItems |-> FALSE, items |-> <<>>],
      [hasResult |-> TRUE,  hasItems |-> TRUE,  items |-> <<>>] }
    \cup { [hasResult |-> TRUE, hasItems |-> TRUE, items |-> l] : l \in ProviderLists }

NoPayload == [hasResult |-> FALSE, hasItems |-> FALSE, items |-> <<>>]

\* what the provider does with one request: fetch rejects; it answers with
\* a status and a body that is no JSON; it answers 200 with a payload
ProviderDeliveries ==
    { [fetch |-> "rejects", status |-> NetFail, json |-> FALSE, payload |-> NoPayload] }
    \cup { [fetch |-> "responds", status |-> st, json |-> FALSE, payload |-> NoPayload] :
              st \in HttpStatuses }
    \cup { [fetch |-> "responds", status |-> st, json |-> TRUE, payload |-> NoPayload] :
              st \in HttpStatuses \ {200} }
    \cup { [fetch |-> "responds", status |-> 200, json |-> TRUE, payload |-> pl] :
              pl \in ProviderPayloads }

ResearchInit ==
    /\ pc = "request"
    /\ body \in Bodies
    /\ selector \in Selectors
    /\ env \in [dataforseo : BOOLEAN, openai : BOOLEAN, gemini : BOOLEAN]
    /\ AgentAtRest
    /\ body.topic = "seo"
    /\ keywordResearch = Unset
    /\ outline = Unset
    /\ articleContent = <<>>
    /\ request \in [op : {"getSERPResults", "getKeywordSuggestions"}, keyword : {body.topic}]
    /\ delivery \in ProviderDeliveries
    /\ reader = "none"
    /\ locals = NoLocals
    /\ returned = NoReturn
    /\ runs = <<>>

\* const response = await this.request(...): it returns the body or throws,
\* and what it throws leaves getSERPResults / getKeywordSuggestions
RequestSettles ==
    /\ pc = "request"
    /\ returned' = Request(delivery)
    /\ pc' = IF Request(delivery).threw THEN "raised" ELSE "responded"
    /\ UNCHANGED <<runVars_but_pc, request, delivery, reader, locals, runs>>

\* the rest of getSERPResults / getKeywordSuggestions
MapResponse ==
    /\ pc = "responded"
    /\ returned' = [threw |-> FALSE,
                    value |-> IF request.op = "getSERPResults"
                              THEN GetSERPResults(request.keyword, returned.value)
                              ELSE GetKeywordSuggestions(returned.value)]
    /\ pc' = "returned"
    /\ UNCHANGED <<runVars_but_pc, request, delivery, reader, locals, runs>>

ResearchNext == RequestSettles \/ MapResponse

SpecResearch == ResearchInit /\ [][ResearchNext]_vars

\* ------------------------------------------------------------------------
\* OpenAIClient.stream called on its own
\* ------------------------------------------------------------------------

\* pieces of the provider's event stream:
\*   "nl" a newline, "pfx" the text 'data: ', "done" the text '[DONE]',
\*   "j1" and "j2" the JSON of a delta with content "x" and "y", "jh" and
\*   "jt" the two halves of the JSON of a delta with content "z", "e" the
\*   JSON of a delta without content, "junk" any other text
EventStreams ==
    { <<>>,
      <<"pfx", "j1", "nl", "nl", "pfx", "j2", "nl", "nl", "pfx", "done", "nl", "nl">>,
      <<"pfx", "e", "nl", "pfx", "jh", "jt", "nl", "pfx", "j1">>,
      <<"junk", "nl", "pfx", "jt", "nl", "pfx", "j1", "nl", "pfx", "j2", "nl">> }

\* buffer.split('\n'): the lines of a text, the last one being what stands
\* after the last newline
RECURSIVE SplitEventLines(_, _)
SplitEventLines(text, cur) ==
    IF text = <<>> THEN <<cur>>
    ELSE IF Head(text) = "nl" THEN <<cur>> \o SplitEventLines(Tail(text), <<>>)
    ELSE SplitEventLines(Tail(text), Append(cur, Head(text)))

\* line.startsWith('data: ') && line !== 'data: [DONE]'
IsDataLine(line) == line # <<>> /\ Head(line) = "pfx" /\ line # <<"pfx", "done">>

\* JSON.parse(line.slice(6)).choices?.[0]?.delta?.content, "" when the text
\* is no JSON (the catch block) or the delta has no content
DeltaContent(line) ==
    IF Tail(line) = <<"j1">> THEN "x"
    ELSE IF Tail(line) = <<"j2">> THEN "y"
    ELSE IF Tail(line) = <<"jh", "jt">> THEN "z"
    ELSE ""

\* if (content) yield content
Yields(line) == IsDataLine(line) /\ DeltaContent(line) # ""

\* the for loop over lines runs on to the next line that yields
RECURSIVE SkipToYield(_)
SkipToYield(lines) ==
    IF lines = <<>> \/ Yields(Head(lines)) THEN lines ELSE SkipToYield(Tail(lines))

\* what the provider does with the request of stream(): fetch rejects, it
\* answers with an error status, it answers without a body, or it answers
\* with an event stream that ends or breaks off (ending "error")
StreamDeliveries ==
    { [fetch |-> "rejects", ok |-> FALSE, hasBody |-> FALSE, text |-> <<>>, ending |-> "done"],
      [fetch |-> "responds", ok |-> FALSE, hasBody |-> TRUE, text |-> <<>>, ending |-> "done"],
      [fetch |-> "responds", ok |-> TRUE, hasBody |-> FALSE, text |-> <<>>, ending |-> "done"] }
    \cup { [fetch |-> "responds", ok |-> TRUE, hasBody |-> TRUE, text |-> t, ending |-> e] :
              t \in EventStreams, e \in {"done", "error"} }

StreamInit ==
    /\ pc = "fetch"
    /\ body \in Bodies
    /\ selector \in Selectors
    /\ env \in [dataforseo : BOOLEAN, openai : BOOLEAN, gemini : BOOLEAN]
    /\ AgentAtRest
    /\ body.topic = "seo"
    /\ keywordResearch = Unset
    /\ outline = Unset
    /\ articleContent = <<>>
    /\ request = [op |-> "stream", backend |-> "openai"]
    /\ delivery \in StreamDeliveries
    /\ reader = "none"
    /\ locals = NoLocals
    /\ returned = [fragments |-> <<>>]
    /\ runs = <<>>

\* the consumer's first next(): await fetch, the two throws, getReader()
StreamFetch ==
    /\ pc = "fetch"
    /\ IF delivery.fetch = "rejects"
       THEN /\ error' = "fetch failed"
            /\ pc' = "threw"
            /\ UNCHANGED <<reader, locals>>
       ELSE IF ~delivery.ok
       THEN /\ error' = "OpenAI API error"
            /\ pc' = "threw"
            /\ UNCHANGED <<reader, locals>>
       ELSE IF ~delivery.hasBody
       THEN /\ error' = "No response body"
            /\ pc' = "threw"
            /\ UNCHANGED <<reader, locals>>
       ELSE /\ reader' = "locked"
            /\ locals' = [unread |-> delivery.text, buffer |-> <<>>, lines |-> <<>>]
            /\ pc' = "read"
            /\ UNCHANGED error
    /\ UNCHANGED <<via, mode, body, selector, env, agent, headersSent, status,
                   resBody, ended, events, calls, serpData, keywordData,
                   keywordResearch, outline, articleContent, chunk,
                   tokensUsed, outcome, result, log, replies, received,
                   request, delivery, returned, runs>>

\* the generator goes on after a read or a resumption: to its next yield,
\* or back to reader.read() when no line is left that yields
ScanLines(unread, buffer, lines) ==
    LET rest == SkipToYield(lines)
    IN IF rest = <<>>
       THEN /\ locals' = [unread |-> unread, buffer |-> buffer, lines |-> <<>>]
            /\ pc' = "read"
            /\ UNCHANGED returned
       ELSE /\ locals' = [unread |-> unread, buffer |-> buffer, lines |-> Tail(rest)]
            /\ returned' = [fragments |-> Append(returned.fragments, DeltaContent(Head(rest)))]
            /\ pc' = "yielded"

\* await reader.read(): the transport hands over the next piece of the
\* stream, of any length; or reports the end; or the read fails
StreamRead ==
    /\ pc = "read"
    /\ \/ /\ locals.unread # <<>>
          /\ \E k \in 1..Len(locals.unread) :
                LET value == SubSeq(locals.unread, 1, k)
                    split == SplitEventLines(locals.buffer \o value, <<>>)
                IN ScanLines(SubSeq(locals.unread, k + 1, Len(locals.unread)),
                             split[Len(split)],
                             SubSeq(split, 1, Len(split) - 1))
          /\ UNCHANGED <<reader, error>>
       \/ /\ locals.unread = <<>>
          /\ delivery.ending = "done"
          /\ reader' = "closed"
          /\ pc' = "finished"
          /\ UNCHANGED <<locals, returned, error>>
       \/ /\ delivery.ending = "error"
          /\ reader' = "errored"
          /\ error' = "read failed"
          /\ pc' = "threw"
          /\ UNCHANGED <<locals, returned>>
    /\ UNCHANGED <<via, mode, body, selector, env, agent, headersSent, status,
                   resBody, ended, events, calls, serpData, keywordData,
                   keywordResearch, outline, articleContent, chunk,
                   tokensUsed, outcome, result, log, replies, received,
                   request, delivery, runs>>

\* the consumer calls next() on the generator suspended at its yield
StreamResume ==
    /\ pc = "yielded"
    /\ ScanLines(locals.unread, locals.buffer, locals.lines)
    /\ UNCHANGED <<runVars_but_pc, request, delivery, reader, runs>>

\* the consumer leaves its for await loop: return() ends the generator at
\* its yield; stream() has no finally block, the reader is neither
\* cancelled nor released
StreamReturn ==
    /\ pc = "yielded"
    /\ pc' = "abandoned"
    /\ UNCHANGED <<runVars_but_pc, request, delivery, reader, locals, returned, runs>>

StreamNext == StreamFetch \/ StreamRead \/ StreamResume \/ StreamReturn

SpecStream == StreamInit /\ [][StreamNext]_vars

\* ------------------------------------------------------------------------
\* GeminiClient.complete and GeminiClient.stream called on one request
\* ------------------------------------------------------------------------

\* largest number of messages in a request
MaxMessages == 3

Roles == {"system", "user", "assistant"}

\* message texts; "" is the empty text
Contents == {"", "p", "q"}

CompletionRequests ==
    { [messages |-> ms] :
        ms \in UNION { [1..n -> [role : Roles, content : Contents]] : n \in 0..MaxMessages } }

\* request.messages.find(m => m.role === role)?.content || ''
FindContent(messages, role) ==
    IF \E i \in 1..Len(messages) : messages[i].role = role
    THEN messages[CHOOSE i \in 1..Len(messages) :
                    /\ messages[i].role = role
                    /\ \A j \in 1..(i - 1) : messages[j].role # role].content
    ELSE ""

\* the text between the two parts of the prompt
Delimiter == "\n\n---\n\n"

\* the prompt of complete(): the parts of the template string, in order
GeminiCompletePrompt(messages) ==
    IF FindContent(messages, "system") # ""
    THEN <<FindContent(messages, "system"), Delimiter, FindContent(messages, "user")>>
    ELSE <<FindContent(messages, "user")>>

\* a stream() that puts the user text first
GeminiStreamPrompt_UserFirst(messages) ==
    IF FindContent(messages, "system") # ""
    THEN <<FindContent(messages, "user"), Delimiter, FindContent(messages, "system")>>
    ELSE <<FindContent(messages, "user")>>

\* the prompt of stream()
GeminiStreamPrompt(messages) ==
    IF FindContent(messages, "system") # ""
    THEN <<FindContent(messages, "system"), Delimiter, FindContent(messages, "user")>>
    ELSE <<FindContent(messages, "user")>>

GeminiInit ==
    /\ pc = "complete"
    /\ body \in Bodies
    /\ selector \in Selectors
    /\ env \in [dataforseo : BOOLEAN, openai : BOOLEAN, gemini : BOOLEAN]
    /\ AgentAtRest
    /\ body.topic = "seo"
    /\ keywordResearch = Unset
    /\ outline = Unset
    /\ articleContent = <<>>
    /\ request \in CompletionRequests
    /\ delivery = NoDelivery
    /\ reader = "none"
    /\ locals = NoLocals
    /\ returned = NoReturn
    /\ runs = <<>>

\* complete(request) up to await model.generateContent(prompt)
GeminiComplete ==
    /\ pc = "complete"
    /\ calls' = Append(calls, [op |-> "generateContent",
                               prompt |-> GeminiCompletePrompt(request.messages)])
    /\ pc' = "stream"
    /\ UNCHANGED <<unitVars, via, mode, body, selector, env, agent, headersSent, status,
                   resBody, ended, events, serpData, keywordData,
                   keywordResearch, outline, articleContent, chunk,
                   tokensUsed, outcome, result, error, log, replies, received>>

\* stream(request), on the same request, up to
\* await model.generateContentStream(prompt)
GeminiStream ==
    /\ pc = "stream"
    /\ calls' = Append(calls, [op |-> "generateContentStream",
                               prompt |-> GeminiStreamPrompt(request.messages)])
    /\ pc' = "sent"
    /\ UNCHANGED <<unitVars, via, mode, body, selector, env, agent, headersSent, status,
                   resBody, ended, events, serpData, keywordData,
                   keywordResearch, outline, articleContent, chunk,
                   tokensUsed, outcome, result, error, log, replies, received>>

GeminiNext == GeminiComplete \/ GeminiStream

SpecGemini == GeminiInit /\ [][GeminiNext]_vars

\* ------------------------------------------------------------------------
\* A server that handles two requests at a time
\* ------------------------------------------------------------------------
\* Every request gets its own route-handler invocation and its own
\* ContentGeneratorAgent.  A run is suspended at its awaits and yields; the
\* code between two suspension points runs without interruption, so a step
\* of a run is one such segment.  What the runs share is process.env, which
\* they read, and the console, to which they write.

RunIds == {1, 2}

\* the collaborators' answers to the calls of one run, in call order:
\* everything answers and the generated texts parse
ScriptAllAnswer ==
    [serp     |-> [http |-> 200,
                   payload |-> [hasResult |-> TRUE, hasItems |-> TRUE,
                                items |-> <<SerpItem("organic", 1), SerpItem("paid", 2),
                                            SerpItem("organic", 3)>>]],
     sugg     |-> [http |-> 200, n |-> 2],
     plan     |-> [o |-> "ok", text |-> <<"prose", "{", "planMembers", "}", "prose">>,
                   tokens |-> 1000],
     outline  |-> [o |-> "ok", text |-> <<"{", "outlineMembers", "}">>, tokens |-> 1000],
     article  |-> [o |-> "ok",
                   text |-> <<"md", "sp", "w", "nl", "refs", "nl", "num", "sp", "link">>,
                   tokens |-> 1000],
     fragments |-> << <<"md", "sp", "w", "nl">>, <<"refs", "nl", "num", "sp", "link">> >>,
     streamEnds |-> "ok"]

\* the research provider is down and the generated texts are prose
ScriptFallbacks ==
    [serp     |-> [http |-> 429,
                   payload |-> [hasResult |-> FALSE, hasItems |-> FALSE, items |-> <<>>]],
     sugg     |-> [http |-> NetFail, n |-> 0],
     plan     |-> [o |-> "ok", text |-> <<"prose">>, tokens |-> 0],
     outline  |-> [o |-> "ok", text |-> <<"prose">>, tokens |-> 1000],
     article  |-> [o |-> "ok", text |-> <<"para", "sp", "w">>, tokens |-> 1000],
     fragments |-> << <<"refs", "nl", "num", "sp", "link">> >>,
     streamEnds |-> "ok"]

\* the outline call fails
ScriptOutlineFails ==
    [serp     |-> [http |-> 200,
                   payload |-> [hasResult |-> TRUE, hasItems |-> TRUE, items |-> <<>>]],
     sugg     |-> [http |-> 200, n |-> 0],
     plan     |-> [o |-> "ok", text |-> <<"{", "planMembers", "}">>, tokens |-> 1000],
     outline  |-> [o |-> "api_error", text |-> <<>>, tokens |-> 0],
     article  |-> [o |-> "api_error", text |-> <<>>, tokens |-> 0],
     fragments |-> <<>>,
     streamEnds |-> "api_error"]

\* the article call fails, in streaming mode after one fragment
ScriptArticleFails ==
    [serp     |-> [http |-> 200,
                   payload |-> [hasResult |-> TRUE, hasItems |-> TRUE, items |-> <<>>]],
     sugg     |-> [http |-> 500, n |-> 0],
     plan     |-> [o |-> "ok", text |-> <<"{", "planMembers", "}">>, tokens |-> 1000],
     outline  |-> [o |-> "ok", text |-> <<"{", "outlineMembers", "}">>, tokens |-> 0],
     article  |-> [o |-> "api_error", text |-> <<>>, tokens |-> 0],
     fragments |-> << <<"md", "sp", "w", "nl">> >>,
     streamEnds |-> "api_error"]

\* request bodies with the answers their run gets
Workloads ==
    { [body |-> [topic |-> "seo", targetWordCount |-> Absent, internalLinks |-> NoLinks],
       script |-> ScriptAllAnswer],
      [body |-> [topic |-> "seo", targetWordCount |-> 3000,
                 internalLinks |-> [given |-> TRUE, links |-> <<LinkA, LinkB>>]],
       script |-> ScriptFallbacks],
      [body |-> [topic |-> "llm", targetWordCount |-> Absent, internalLinks |-> NoLinks],
       script |-> ScriptOutlineFails],
      [body |-> [topic |-> "llm", targetWordCount |-> Absent, internalLinks |-> NoLinks],
       script |-> ScriptArticleFails],
      [body |-> [topic |-> "", targetWordCount |-> Absent, internalLinks |-> NoLinks],
       script |-> ScriptAllAnswer] }

\* a request that has arrived and whose handler has not started
NewRun(m, sel, w) ==
    [mode |-> m, selector |-> sel, body |-> w.body, script |-> w.script,
     pc |-> "start",
     aiProvider |-> "none",
     headersSent |-> FALSE,
     status |-> 0,
     resBody |-> NoBody,
     ended |-> FALSE,
     events |-> <<>>,
     calls |-> <<>>,
     serpData |-> <<>>,
     keywordData |-> <<>>,
     keywordResearch |-> Unset,
     outline |-> Unset,
     articleContent |-> <<>>,
     consumed |-> 0,
     tokensUsed |-> [keywordResearch |-> 0, outline |-> 0, article |-> 0],
     result |-> NoResult,
     error |-> ""]

NewRuns == { NewRun(m, sel, w) : m \in {"buffered", "stream"}, sel \in Selectors, w \in Workloads }

ServerInit ==
    /\ pc = "serving"
    /\ via = "route"
    /\ mode = "buffered"
    /\ body = [topic |-> "seo", targetWordCount |-> Absent, internalLinks |-> NoLinks]
    /\ selector = "openai"
    /\ env \in { [dataforseo |-> TRUE, openai |-> TRUE, gemini |-> TRUE],
                 [dataforseo |-> TRUE, openai |-> TRUE, gemini |-> FALSE] }
    /\ agent = "none"
    /\ headersSent = FALSE
    /\ status = 0
    /\ resBody = NoBody
    /\ ended = FALSE
    /\ events = <<>>
    /\ calls = <<>>
    /\ serpData = <<>>
    /\ keywordData = <<>>
    /\ keywordResearch = Unset
    /\ outline = Unset
    /\ articleContent = <<>>
    /\ chunk = <<>>
    /\ tokensUsed = [keywordResearch |-> 0, outline |-> 0, article |-> 0]
    /\ outcome = "none"
    /\ result = NoResult
    /\ error = ""
    /\ log = <<>>
    /\ replies = <<>>
    /\ received = <<>>
    /\ request = NoRequest
    /\ delivery = NoDelivery
    /\ reader = "none"
    /\ locals = NoLocals
    /\ returned = NoReturn
    /\ runs \in [RunIds -> NewRuns]

\* the catch blocks of the two routes
RunCatch(u, message) ==
    IF u.mode = "stream" /\ u.headersSent
    THEN [u EXCEPT !.pc = "done", !.error = message, !.ended = TRUE,
                   !.events = Append(@, ErrorEvent(message))]
    ELSE [u EXCEPT !.pc = "done", !.error = message, !.ended = TRUE,
                   !.status = 500,
                   !.resBody = ErrorBody("GENERATION_ERROR", message)]

\* message of the error new ContentGeneratorAgent({ aiProvider }) throws
\* under the environment e, "" when it succeeds
AgentConstructorError(aiProvider, e) ==
    IF ~e.dataforseo THEN "DataForSEO credentials not configured"
    ELSE IF aiProvider = "gemini" /\ ~e.gemini THEN "Google AI API key not configured"
    ELSE IF aiProvider # "gemini" /\ ~e.openai THEN "OpenAI API key not configured"
    ELSE ""

\* yield { type: 'progress', ... }
YieldProgress(u, cp, next) ==
    [u EXCEPT !.events = Append(@, ProgressEvent(Checkpoints[cp])), !.pc = next]

\* analyzeSERP up to the await of the research call
CallSERP(u) ==
    [u EXCEPT !.calls = Append(@, [op |-> "serp", keyword |-> u.body.topic]),
              !.pc = "serp_wait"]

\* the route handler from its invocation to the first suspension point
Accepted(u, e) ==
    IF ~GenerateArticleSchema(u.body)
    THEN [u EXCEPT !.pc = "done", !.status = 400, !.ended = TRUE,
                   !.resBody = ErrorBody("VALIDATION_ERROR", "Invalid request body")]
    ELSE LET h == [u EXCEPT !.headersSent = (u.mode = "stream"),
                            !.status = IF u.mode = "stream" THEN 200 ELSE 0]
         IN IF AgentConstructorError(AiProvider(u.selector), e) # ""
            THEN RunCatch(h, AgentConstructorError(AiProvider(u.selector), e))
            ELSE LET a == [h EXCEPT !.aiProvider = AiProvider(u.selector)]
                 IN IF u.mode = "stream"
                    THEN YieldProgress(a, "p5", "serp")
                    ELSE CallSERP(a)

\* the rest of analyzeSERP
ReceiveSERP(u) ==
    [u EXCEPT !.serpData =
        IF RequestError(u.script.serp.http) = ""
        THEN FormatSERP(GetSERPResults(u.body.topic, u.script.serp.payload))
        ELSE SerpUnavailable]

CallSuggestions(u) ==
    [u EXCEPT !.calls = Append(@, [op |-> "suggestions", keyword |-> u.body.topic]),
              !.pc = "sugg_wait"]

ReceiveSuggestions(u) ==
    [u EXCEPT !.keywordData =
        IF RequestError(u.script.sugg.http) = ""
        THEN FormatKeywordSuggestions(u.script.sugg.n)
        ELSE SuggestionsUnavailable]

\* this.aiClient is the client the constructor of this run's agent made
CallKeywordPlan(u) ==
    [u EXCEPT !.calls = Append(@, [op |-> "keywordPlan",
                                   backend |-> u.aiProvider,
                                   method |-> "complete",
                                   temperature |-> 3,
                                   prompt |-> <<u.body.topic>> \o u.serpData \o u.keywordData]),
              !.pc = "kw_wait"]

\* a fallback plan that takes its target length from the request
ReceiveKeywordPlan_TargetFromInput(u) ==
    IF u.script.plan.o = "ok"
    THEN LET plan == parseKeywordResearchResponse(u.script.plan.text, u.body.topic)
         IN [u EXCEPT !.keywordResearch =
                          IF plan = FallbackPlan(u.body.topic) /\ u.body.targetWordCount # Absent
                          THEN [plan EXCEPT !.contentStructure.targetWordCount =
                                                u.body.targetWordCount]
                          ELSE plan,
                      !.tokensUsed.keywordResearch = u.script.plan.tokens]
    ELSE RunCatch(u, GenerationError)

ReceiveKeywordPlan(u) ==
    IF u.script.plan.o = "ok"
    THEN [u EXCEPT !.keywordResearch =
                       parseKeywordResearchResponse(u.script.plan.text, u.body.topic),
                   !.tokensUsed.keywordResearch = u.script.plan.tokens]
    ELSE RunCatch(u, GenerationError)

\* an outline prompt that asks for the FAQ only when includeFAQ is set
CallOutline_FAQFlag(u) ==
    IF BuildOutlinePromptThrows(u.keywordResearch)
    THEN RunCatch(u, "TypeError")
    ELSE [u EXCEPT !.calls = Append(@, [op |-> "outline",
                                        backend |-> u.aiProvider,
                                        method |-> "complete",
                                        temperature |-> 3,
                                        prompt |-> <<u.keywordResearch.primaryKeyword.keyword>>
                                            \o [i \in 1..Len(u.body.internalLinks.links) |->
                                                   u.body.internalLinks.links[i].title]
                                            \o (IF u.body.includeFAQ THEN <<"faq">> ELSE <<>>)]),
                   !.pc = "outline_wait"]

CallOutline(u) ==
    IF BuildOutlinePromptThrows(u.keywordResearch)
    THEN RunCatch(u, "TypeError")
    ELSE [u EXCEPT !.calls = Append(@, [op |-> "outline",
                                        backend |-> u.aiProvider,
                                        method |-> "complete",
                                        temperature |-> 3,
                                        prompt |-> <<u.keywordResearch.primaryKeyword.keyword>>
                                            \o [i \in 1..Len(u.body.internalLinks.links) |->
                                                   u.body.internalLinks.links[i].title]]),
                   !.pc = "outline_wait"]

ReceiveOutline(u) ==
    IF u.script.outline.o # "ok"
    THEN RunCatch(u, GenerationError)
    ELSE IF ~OutlineParsed(u.script.outline.text) /\ OutlineFallbackThrows(u.keywordResearch)
    THEN RunCatch(u, "TypeError")
    ELSE [u EXCEPT !.outline = parseOutlineResponse(u.script.outline.text, u.keywordResearch),
                   !.tokensUsed.outline = u.script.outline.tokens]

CallArticle(u) ==
    IF BuildArticlePromptThrows(u.outline, u.keywordResearch)
    THEN RunCatch(u, "TypeError")
    ELSE [u EXCEPT !.calls = Append(@, [op |-> "article",
                                        backend |-> u.aiProvider,
                                        method |-> IF u.mode = "stream" THEN "stream" ELSE "complete",
                                        temperature |-> 7,
                                        maxTokens |-> 8000,
                                        prompt |-> <<u.keywordResearch.primaryKeyword.keyword>>]),
                   !.pc = IF u.mode = "stream" THEN "frag_wait" ELSE "article_wait"]

\* an output whose primary keyword is the topic of the request
OutputOf_TopicAsKeyword(u) ==
    [success |-> TRUE,
     data |-> [article |-> [title |-> u.outline.metadata.h1,
                            content |-> u.articleContent,
                            wordCount |-> countWords(u.articleContent),
                            readingTime |-> ReadingTime(countWords(u.articleContent))],
               seo |-> [metaTitle |-> u.outline.metadata.metaTitle,
                        metaDescription |-> u.outline.metadata.metaDescription,
                        primaryKeyword |-> u.body.topic,
                        secondaryKeywords |->
                            [i \in 1..Len(u.keywordResearch.secondaryKeywords) |->
                                u.keywordResearch.secondaryKeywords[i].keyword]],
               outline |-> u.outline,
               keywordResearch |-> u.keywordResearch,
               references |-> extractReferences(u.articleContent),
               internalLinks |-> InternalLinks(u.body)],
     metadata |-> [tokensUsed |-> u.tokensUsed]]

\* the ArticleGenerationOutput built from the locals of the run
OutputOf(u) ==
    [success |-> TRUE,
     data |-> [article |-> [title |-> u.outline.metadata.h1,
                            content |-> u.articleContent,
                            wordCount |-> countWords(u.articleContent),
                            readingTime |-> ReadingTime(countWords(u.articleContent))],
               seo |-> [metaTitle |-> u.outline.metadata.metaTitle,
                        metaDescription |-> u.outline.metadata.metaDescription,
                        primaryKeyword |-> u.keywordResearch.primaryKeyword.keyword,
                        secondaryKeywords |->
                            [i \in 1..Len(u.keywordResearch.secondaryKeywords) |->
                                u.keywordResearch.secondaryKeywords[i].keyword]],
               outline |-> u.outline,
               keywordResearch |-> u.keywordResearch,
               references |-> extractReferences(u.articleContent),
               internalLinks |-> InternalLinks(u.body)],
     metadata |-> [tokensUsed |-> u.tokensUsed]]

\* generate after the article call, and res.json(result)
ReceiveArticle(u) ==
    IF u.script.article.o # "ok"
    THEN RunCatch(u, GenerationError)
    ELSE LET w == [u EXCEPT !.articleContent = u.script.article.text,
                            !.tokensUsed.article = u.script.article.tokens]
         IN [w EXCEPT !.result = OutputOf(w), !.status = 200, !.resBody = OutputOf(w),
                      !.ended = TRUE, !.pc = "done"]

\* one turn of the for await loop of generateStream, or its end
NextFragment(u) ==
    IF u.consumed < Len(u.script.fragments)
    THEN [u EXCEPT !.articleContent = @ \o u.script.fragments[u.consumed + 1],
                   !.consumed = @ + 1,
                   !.events = Append(@, [type |-> "chunk",
                                         content |-> u.script.fragments[u.consumed + 1]])]
    ELSE IF u.script.streamEnds # "ok"
    THEN RunCatch(u, GenerationError)
    ELSE YieldProgress([u EXCEPT !.tokensUsed.article = CeilDiv(CharLength(u.articleContent), 4)],
                       "p95", "complete")

\* yield { type: 'complete', data: ... }
YieldComplete(u) ==
    [u EXCEPT !.result = OutputOf(u),
              !.events = Append(@, [type |-> "complete", data |-> OutputOf(u)]),
              !.pc = "end"]

\* the segment of run u from the suspension point it is at to the next one
RunStep(u, e) ==
    CASE u.pc = "start" -> Accepted(u, e)
      [] u.pc = "serp" -> CallSERP(u)
      [] u.pc = "serp_wait" ->
            IF u.mode = "stream"
            THEN YieldProgress(ReceiveSERP(u), "p20", "sugg")
            ELSE CallSuggestions(ReceiveSERP(u))
      [] u.pc = "sugg" -> CallSuggestions(u)
      [] u.pc = "sugg_wait" -> CallKeywordPlan(ReceiveSuggestions(u))
      [] u.pc = "kw_wait" ->
            IF ReceiveKeywordPlan(u).pc = "done" THEN ReceiveKeywordPlan(u)
            ELSE IF u.mode = "stream"
            THEN YieldProgress(ReceiveKeywordPlan(u), "p35", "p40")
            ELSE CallOutline(ReceiveKeywordPlan(u))
      [] u.pc = "p40" -> YieldProgress(u, "p40", "outline")
      [] u.pc = "outline" -> CallOutline(u)
      [] u.pc = "outline_wait" ->
            IF ReceiveOutline(u).pc = "done" THEN ReceiveOutline(u)
            ELSE IF u.mode = "stream"
            THEN YieldProgress(ReceiveOutline(u), "p55", "p60")
            ELSE CallArticle(ReceiveOutline(u))
      [] u.pc = "p60" -> YieldProgress(u, "p60", "article")
      [] u.pc = "article" -> CallArticle(u)
      [] u.pc = "article_wait" -> ReceiveArticle(u)
      [] u.pc = "frag_wait" -> NextFragment(u)
      [] u.pc = "complete" -> YieldComplete(u)
      [] u.pc = "end" -> [u EXCEPT !.ended = TRUE, !.pc = "done"]
      [] OTHER -> u

\* the console.error calls of that segment: a failed research call, or the
\* catch block of the route
Logged(u, e) ==
    (IF u.pc = "serp_wait" /\ RequestError(u.script.serp.http) # ""
     THEN <<[at |-> "serp", code |-> RequestError(u.script.serp.http)]>>
     ELSE <<>>)
    \o (IF u.pc = "sugg_wait" /\ RequestError(u.script.sugg.http) # ""
        THEN <<[at |-> "suggestions", code |-> RequestError(u.script.sugg.http)]>>
        ELSE <<>>)
    \o (IF RunStep(u, e).error # ""
        THEN <<[at |-> "route", code |-> "GENERATION_ERROR"]>>
        ELSE <<>>)

\* a server whose handlers keep the generation client in a variable of the
\* module: the client a handler constructs serves every run from then on
Accept_ModuleClient(r) ==
    /\ runs[r].pc = "start"
    /\ runs' = [q \in RunIds |->
                   IF q = r THEN RunStep(runs[r], env)
                   ELSE IF RunStep(runs[r], env).aiProvider # "none"
                        THEN [runs[q] EXCEPT !.aiProvider = RunStep(runs[r], env).aiProvider]
                        ELSE runs[q]]
    /\ log' = log \o Logged(runs[r], env)
    /\ UNCHANGED <<request, delivery, reader, locals, returned, pc, via, mode, body,
                   selector, env, agent, headersSent, status, resBody, ended,
                   events, calls, serpData, keywordData, keywordResearch,
                   outline, articleContent, chunk, tokensUsed, outcome,
                   result, error, replies, received>>

\* a request arrives: the route handler runs to its first suspension point
Accept(r) ==
    /\ runs[r].pc = "start"
    /\ runs' = [runs EXCEPT ![r] = RunStep(runs[r], env)]
    /\ log' = log \o Logged(runs[r], env)
    /\ UNCHANGED <<request, delivery, reader, locals, returned, pc, via, mode, body,
                   selector, env, agent, headersSent, status, resBody, ended,
                   events, calls, serpData, keywordData, keywordResearch,
                   outline, articleContent, chunk, tokensUsed, outcome,
                   result, error, replies, received>>

\* a server whose agent keeps the article text in a variable of the module
Resume_ModuleContent(r) ==
    /\ runs[r].pc \notin {"start", "done"}
    /\ runs' = [q \in RunIds |->
                   IF q = r THEN RunStep(runs[r], env)
                   ELSE [runs[q] EXCEPT !.articleContent = RunStep(runs[r], env).articleContent]]
    /\ log' = log \o Logged(runs[r], env)
    /\ UNCHANGED <<request, delivery, reader, locals, returned, pc, via, mode, body,
                   selector, env, agent, headersSent, status, resBody, ended,
                   events, calls, serpData, keywordData, keywordResearch,
                   outline, articleContent, chunk, tokensUsed, outcome,
                   result, error, replies, received>>

\* a suspended run is resumed and runs to its next suspension point
Resume(r) ==
    /\ runs[r].pc \notin {"start", "done"}
    /\ runs' = [runs EXCEPT ![r] = RunStep(runs[r], env)]
    /\ log' = log \o Logged(runs[r], env)
    /\ UNCHANGED <<request, delivery, reader, locals, returned, pc, via, mode, body,
                   selector, env, agent, headersSent, status, resBody, ended,
                   events, calls, serpData, keywordData, keywordResearch,
                   outline, articleContent, chunk, tokensUsed, outcome,
                   result, error, replies, received>>

ServerNext == \E r \in RunIds : Accept(r) \/ Resume(r)

SpecServer == ServerInit /\ [][ServerNext]_vars

\* the run executed alone: its segments one after the other, under the
\* environment e
RECURSIVE RunAlone(_, _)
RunAlone(u, e) == IF u.pc = "done" THEN u ELSE RunAlone(RunStep(u, e), e)

\* ------------------------------------------------------------------------
\* The application in front of the router: body parser and error handler
\* ------------------------------------------------------------------------

\* what the client sends as the body of its POST: JSON text or anything else
RawBodies == {"json", "garbage"}

\* req.body of a request whose body was not parsed
EmptyBody == [topic |-> "", targetWordCount |-> Absent, internalLinks |-> NoLinks]

AppInit ==
    /\ via \in {"route", "direct"}
    /\ pc = IF via = "route" THEN "received" ELSE "start"
    /\ request \in (IF via = "route" THEN [raw : RawBodies] ELSE {NoRequest})
    /\ mode \in {"buffered", "stream"}
    /\ body \in Bodies
    /\ selector \in Selectors
    /\ env \in [dataforseo : BOOLEAN, openai : BOOLEAN, gemini : BOOLEAN]
    /\ via = "direct" => TestSetup(body, selector, env)
    /\ via = "route" => selector \in RouteSelectors
    /\ (via = "route" /\ request.raw = "garbage") => body = EmptyBody
    /\ agent = "none"
    /\ headersSent = FALSE
    /\ status = 0
    /\ resBody = NoBody
    /\ ended = FALSE
    /\ events = <<>>
    /\ calls = <<>>
    /\ serpData = <<>>
    /\ keywordData = <<>>
    /\ keywordResearch = Unset
    /\ outline = Unset
    /\ articleContent = <<>>
    /\ chunk = <<>>
    /\ tokensUsed = [keywordResearch |-> 0, outline |-> 0, article |-> 0]
    /\ outcome = "none"
    /\ result = NoResult
    /\ error = ""
    /\ log = <<>>
    /\ replies = <<>>
    /\ received = <<>>
    /\ delivery = NoDelivery
    /\ reader = "none"
    /\ locals = NoLocals
    /\ returned = NoReturn
    /\ runs = <<>>

\* an error handler that answers with the status alone
ErrorHandler_StatusOnly ==
    /\ status' = 500
    /\ resBody' = [success |-> FALSE]
    /\ ended' = TRUE

\* app.use((err, _req, res, _next) => res.status(500).json({ success: false,
\*   error: { code: 'INTERNAL_ERROR', message: 'An unexpected error occurred' } }))
ErrorHandler ==
    /\ status' = 500
    /\ resBody' = ErrorBody("INTERNAL_ERROR", "An unexpected error occurred")
    /\ ended' = TRUE

\* app.use(express.json()): a JSON body becomes req.body and the request
\* goes on to the router; for any other body the parser calls next(err) and
\* the error handler answers
ParseBody ==
    /\ pc = "received"
    /\ IF request.raw = "json"
       THEN /\ pc' = "start"
            /\ UNCHANGED <<status, resBody, ended>>
       ELSE /\ pc' = "done"
            /\ ErrorHandler
    /\ UNCHANGED <<request, delivery, reader, locals, returned, runs, via, mode,
                   body, selector, env, agent, headersSent, events, calls,
                   serpData, keywordData, keywordResearch, outline,
                   articleContent, chunk, tokensUsed, outcome, result,
                   error, log, replies, received>>

AppNext == ParseBody \/ Next

SpecApp == AppInit /\ [][AppNext]_vars

\* ------------------------------------------------------------------------
\* Twin runs: two requests that get the same answers
\* ------------------------------------------------------------------------

\* contentType of a request, "none" when the field is absent
ContentTypes == {"none", "guide"}

\* the fields of a request that generate and generateStream do not read:
\* the flags have their schema default (true) when absent
InertFields ==
    [targetWordCount : {Absent, 500, 3000},
     contentType : ContentTypes,
     includeKeywordResearch : BOOLEAN,
     includeFAQ : BOOLEAN]

\* the inert fields of the first twin: all absent, or all given
FirstTwinFields ==
    { [targetWordCount |-> Absent, contentType |-> "none",
       includeKeywordResearch |-> TRUE, includeFAQ |-> TRUE],
      [targetWordCount |-> 3000, contentType |-> "guide",
       includeKeywordResearch |-> FALSE, includeFAQ |-> FALSE] }

\* the fields the agent reads
ReadFields ==
    [topic : Topics,
     internalLinks : {NoLinks, [given |-> TRUE, links |-> <<LinkA, LinkB>>]}]

TwinBody(rd, inert) ==
    [topic |-> rd.topic,
     internalLinks |-> rd.internalLinks,
     targetWordCount |-> inert.targetWordCount,
     contentType |-> inert.contentType,
     includeKeywordResearch |-> inert.includeKeywordResearch,
     includeFAQ |-> inert.includeFAQ]

\* the answers the twins get: the scripts of the server, and every pair of
\* a plan text and an outline text in a run in which everything answers
TwinScripts ==
    {ScriptAllAnswer, ScriptFallbacks, ScriptOutlineFails, ScriptArticleFails}
        \cup { [ScriptAllAnswer EXCEPT !.plan.text = p, !.outline.text = o] :
                 p \in PlanResponses, o \in OutlineResponses }

TwinInit ==
    /\ pc = "twins"
    /\ via = "route"
    /\ mode = "buffered"
    /\ body = [topic |-> "seo", targetWordCount |-> Absent, internalLinks |-> NoLinks]
    /\ selector = "openai"
    /\ env = [dataforseo |-> TRUE, openai |-> TRUE, gemini |-> TRUE]
    /\ agent = "none"
    /\ headersSent = FALSE
    /\ status = 0
    /\ resBody = NoBody
    /\ ended = FALSE
    /\ events = <<>>
    /\ calls = <<>>
    /\ serpData = <<>>
    /\ keywordData = <<>>
    /\ keywordResearch = Unset
    /\ outline = Unset
    /\ articleContent = <<>>
    /\ chunk = <<>>
    /\ tokensUsed = [keywordResearch |-> 0, outline |-> 0, article |-> 0]
    /\ outcome = "none"
    /\ result = NoResult
    /\ error = ""
    /\ log = <<>>
    /\ replies = <<>>
    /\ received = <<>>
    /\ request = NoRequest
    /\ delivery = NoDelivery
    /\ reader = "none"
    /\ locals = NoLocals
    /\ returned = NoReturn
    /\ \E m \in {"buffered", "stream"}, sel \in RouteSelectors, sc \in TwinScripts,
          rd \in ReadFields, f1 \in FirstTwinFields, f2 \in InertFields :
          runs = [r \in RunIds |->
                    NewRun(m, sel, [body |-> TwinBody(rd, IF r = 1 THEN f1 ELSE f2),
                                    script |-> sc])]

\* both twins run their next segment
TwinStep ==
    /\ pc = "twins"
    /\ \E r \in RunIds : runs[r].pc # "done"
    /\ runs' = [r \in RunIds |-> RunStep(runs[r], env)]
    /\ UNCHANGED <<request, delivery, reader, locals, returned, pc, via, mode, body,
                   selector, env, agent, headersSent, status, resBody, ended,
                   events, calls, serpData, keywordData, keywordResearch,
                   outline, articleContent, chunk, tokensUsed, outcome,
                   result, error, log, replies, received>>

TwinNext == TwinStep

SpecTwins == TwinInit /\ [][TwinNext]_vars

\* ------------------------------------------------------------------------
\* The numeric parameters of a generation request
\* ------------------------------------------------------------------------

\* request.maxTokens and request.temperature (in tenths); Absent when the
\* request omits the member
RequestMaxTokens == {Absent, 0, 1, 8000}

RequestTemperatures == {Absent, 0, 3, 7, 10}

\* what the constructor is given: nothing (as the agent does), or values
ClientConfigs ==
    { [maxTokens |-> Absent, temperature |-> Absent],
      [maxTokens |-> 2048, temperature |-> 5],
      [maxTokens |-> 0, temperature |-> 0] }

\* a || b on an optional number: b when a is undefined or 0
OrElse(a, b) == IF a = Absent \/ a = 0 THEN b ELSE a

\* a ?? b on an optional number: b when a is undefined
Coalesce(a, b) == IF a = Absent THEN b ELSE a

\* this.config of OpenAIClient: maxTokens: config?.maxTokens || 4096,
\* temperature: config?.temperature || 0.7
OpenAIConfig(config) ==
    [maxTokens |-> OrElse(config.maxTokens, 4096),
     temperature |-> OrElse(config.temperature, 7)]

\* this.config of GeminiClient: maxTokens: config?.maxTokens || 8192,
\* temperature: config?.temperature || 0.7
GeminiConfig(config) ==
    [maxTokens |-> OrElse(config.maxTokens, 8192),
     temperature |-> OrElse(config.temperature, 7)]

\* max_tokens: request.maxTokens || this.config.maxTokens,
\* temperature: request.temperature ?? this.config.temperature
\* (maxOutputTokens and temperature of generationConfig in GeminiClient)
SentParameters(req, config) ==
    [maxTokens |-> OrElse(req.maxTokens, config.maxTokens),
     temperature |-> Coalesce(req.temperature, config.temperature)]

ParametersInit ==
    /\ pc = "call"
    /\ body \in Bodies
    /\ selector \in Selectors
    /\ env \in [dataforseo : BOOLEAN, openai : BOOLEAN, gemini : BOOLEAN]
    /\ AgentAtRest
    /\ body.topic = "seo"
    /\ keywordResearch = Unset
    /\ outline = Unset
    /\ articleContent = <<>>
    /\ request \in [backend : {"openai", "gemini"},
                    method : {"complete", "stream"},
                    maxTokens : RequestMaxTokens,
                    temperature : RequestTemperatures]
    /\ delivery = NoDelivery
    /\ reader = "none"
    /\ locals \in [config : ClientConfigs]
    /\ returned = NoReturn
    /\ runs = <<>>

\* OpenAIClient.complete and OpenAIClient.stream up to the fetch: the body
\* of the POST
OpenAIPost ==
    /\ pc = "call"
    /\ request.backend = "openai"
    /\ returned' = SentParameters(request, OpenAIConfig(locals.config))
    /\ pc' = "sent"
    /\ UNCHANGED <<runVars_but_pc, request, delivery, reader, locals, runs>>

\* GeminiClient.complete and GeminiClient.stream up to getGenerativeModel:
\* the generationConfig
GeminiGenerationConfig ==
    /\ pc = "call"
    /\ request.backend = "gemini"
    /\ returned' = SentParameters(request, GeminiConfig(locals.config))
    /\ pc' = "sent"
    /\ UNCHANGED <<runVars_but_pc, request, delivery, reader, locals, runs>>

ParametersNext == OpenAIPost \/ GeminiGenerationConfig

SpecParameters == ParametersInit /\ [][ParametersNext]_vars

\* ------------------------------------------------------------------------
\* Vocabulary of the properties
\* ------------------------------------------------------------------------

IsPrefix(a, b) == Len(a) <= Len(b) /\ a = SubSeq(b, 1, Len(a))

Last(seq) == seq[Len(seq)]

IsProgress(e) == e.type = "progress"

IsTerminal(e) == e.type \in {"complete", "error"}

\* percent values of the progress events, in emission order
ProgressValues ==
    LET ps == SelectSeq(events, IsProgress)
    IN [i \in 1..Len(ps) |-> ps[i].progress]

\* payloads of the chunk events, in emission order
ChunkPayloads ==
    LET cs == SelectSeq(events, IsChunk)
    IN [i \in 1..Len(cs) |-> cs[i].content]

NumChunks == Len(SelectSeq(events, IsChunk))

CallOps == [i \in 1..Len(calls) |-> calls[i].op]

PhaseOrder == <<"serp", "suggestions", "keywordPlan", "outline", "article">>

ResearchOps == {"serp", "suggestions"}

GenerationOps == {"keywordPlan", "outline", "article"}

\* the i-th call has ended, and ended with reply r
EndedWith(i, r) == i <= Len(replies) /\ i <= Len(calls) /\ replies[i] = r

\* a streaming run through the route that passed validation
StreamingRun == via = "route" /\ mode = "stream" /\ GenerateArticleSchema(body)

\* some generation call threw
GenerationFailed ==
    \E i \in 1..Len(calls) : calls[i].op \in GenerationOps /\ EndedWith(i, "api_error")

\* some research call threw
ResearchFailed ==
    \E i \in 1..Len(calls) :
        calls[i].op \in ResearchOps /\ i <= Len(replies) /\ replies[i] # "ok"

\* ------------------------------------------------------------------------
\* C1  Every validated streaming run writes exactly one terminal event,
\*     complete or error, and it is the last event written: at no time are
\*     there two terminal events or an event after a terminal one, and a
\*     finished response holds exactly one.
\* ------------------------------------------------------------------------
C1_ExactlyOneTerminalEvent ==
    StreamingRun =>
        LET T == {i \in 1..Len(events) : IsTerminal(events[i])}
        IN /\ Cardinality(T) <= 1
           /\ \A i \in T : i = Len(events)
           /\ (pc = "done" => ended)
           /\ (ended => Cardinality(T) = 1)

C1_Witness ==
    /\ StreamingRun
    /\ ended
    /\ NumChunks >= 1
    /\ events # <<>>
    /\ Last(events).type = "complete"

\* ------------------------------------------------------------------------
\* C2  When the provider fails in the ARTICLE phase of a streaming run
\*     after at least one chunk event, the response is the six progress
\*     events and the chunks already written, followed by one error event;
\*     the response is ended and holds no complete event.
\* ------------------------------------------------------------------------
ArticleCallFailed ==
    /\ calls # <<>>
    /\ Last(calls).op = "article"
    /\ EndedWith(Len(calls), "api_error")

C2_ErrorEndsStreamAfterChunks ==
    (StreamingRun /\ ArticleCallFailed /\ NumChunks >= 1) =>
        /\ pc = "done"
        /\ ended
        /\ Len(events) = 6 + NumChunks + 1
        /\ \A i \in 1..6 : events[i].type = "progress"
        /\ \A i \in 7..(6 + NumChunks) : events[i].type = "chunk"
        /\ Concat(ChunkPayloads) = articleContent
        /\ events # <<>>
        /\ Last(events) = ErrorEvent(GenerationError)
        /\ \A i \in 1..Len(events) : events[i].type # "complete"

C2_Witness ==
    /\ StreamingRun
    /\ ArticleCallFailed
    /\ NumChunks >= 1
    /\ pc = "done"
    /\ events # <<>>
    /\ Last(events).type = "error"

\* ------------------------------------------------------------------------
\* C3  Whenever every collaborator call of a buffered run returned without
\*     throwing, generate resolves with success = true, whatever text the
\*     generation calls returned and whatever the topic.
\* ------------------------------------------------------------------------
C3_GenerateResolvesWhenNoCallThrows ==
    (/\ mode = "buffered"
     /\ agent = "constructed"
     /\ pc = "done"
     /\ \A i \in 1..Len(replies) : replies[i] = "ok")
        => (outcome = "resolved" /\ result.success)

\* ------------------------------------------------------------------------
\* C4  The collaborator calls of a run are issued in the fixed phase order,
\*     none skipped or repeated, each only after the previous call has
\*     returned and its output is stored; a resolved run has made all the
\*     calls; after a failure no call is issued.
\* ------------------------------------------------------------------------
C4_OrderInv ==
    /\ IsPrefix(CallOps, PhaseOrder)
    /\ Len(replies) <= Len(calls)
    /\ Len(calls) <= Len(replies) + 1
    /\ (Len(calls) >= 2 => serpData # <<>>)
    /\ (Len(calls) >= 3 => keywordData # <<>>)
    /\ (Len(calls) >= 4 => keywordResearch # Unset)
    /\ (Len(calls) >= 5 => outline # Unset)
    /\ (outcome = "resolved" =>
            pc = "done" /\ CallOps = PhaseOrder /\ Len(replies) = Len(calls))

\* C4  C4_OrderInv holds in every state, and once the run has failed the
\*     list of issued calls no longer changes.
C4_SequentialPhases ==
    [](C4_OrderInv) /\ [][error # "" => calls' = calls]_vars

C4_Witness ==
    /\ outcome = "resolved"
    /\ mode = "stream"
    /\ CallOps = PhaseOrder

\* ------------------------------------------------------------------------
\* C5  A run in which a research call failed (any error class) and every
\*     generation call returned completes: the placeholder stands in for
\*     the failed data, the keyword-plan call was issued, and the run is
\*     resolved.
\* ------------------------------------------------------------------------
C5_ResearchFailureNeverAborts ==
    (/\ agent = "constructed"
     /\ pc = "done"
     /\ ResearchFailed
     /\ ~GenerationFailed)
        => /\ (~EndedWith(1, "ok") => serpData = SerpUnavailable)
           /\ (~EndedWith(2, "ok") => keywordData = SuggestionsUnavailable)
           /\ Len(calls) >= 3
           /\ calls[3].op = "keywordPlan"
           /\ outcome = "resolved"

\* ------------------------------------------------------------------------
\* C6  (as stated) An AUTH failure of the research provider, at
\*     construction or as a 401 answer, leaves the run without a
\*     GenerationResult.
\* ------------------------------------------------------------------------
AuthFailure ==
    \/ (agent = "failed" /\ ~env.dataforseo)
    \/ \E i \in 1..Len(replies) : replies[i] = "AUTH_ERROR"

C6_AuthFailsRun ==
    AuthFailure => (result = NoResult /\ outcome # "resolved")

\* C6  (amended) Missing research credentials fail the run when the agent
\*     is constructed: no collaborator call is issued and no
\*     GenerationResult is produced. A 401 answer to a research call does
\*     not fail the run: the placeholder replaces the data and the run
\*     goes on.
C6_ConstructionAuthFailsRun ==
    /\ ~env.dataforseo =>
          /\ calls = <<>>
          /\ result = NoResult
          /\ outcome = "none"
          /\ \A i \in 1..Len(events) : events[i].type # "complete"
          /\ agent # "constructed"
          /\ (agent = "failed" =>
                pc = "done" /\ error = "DataForSEO credentials not configured")
    /\ EndedWith(1, "AUTH_ERROR") => serpData = SerpUnavailable
    /\ EndedWith(2, "AUTH_ERROR") => keywordData = SuggestionsUnavailable
    /\ (replies # <<>> /\ Len(replies) <= 2 /\ Last(replies) = "AUTH_ERROR") =>
          (error = "" /\ pc # "done" /\ outcome = "running")

C6_Witness ==
    /\ ~env.dataforseo
    /\ agent = "failed"
    /\ via = "route"
    /\ pc = "done"
    /\ status \in {200, 500}

\* ------------------------------------------------------------------------
\* C7  A failure of a generation call ends the run: no later call is
\*     issued, generate rejects, the buffered route answers 500 with code
\*     GENERATION_ERROR, the streaming route ends with a trailing error
\*     event, and there is no GenerationResult.
\* ------------------------------------------------------------------------
C7_Inv ==
    GenerationFailed =>
        /\ pc = "done"
        /\ outcome = "rejected"
        /\ result = NoResult
        /\ calls # <<>>
        /\ Last(calls).op \in GenerationOps
        /\ EndedWith(Len(calls), "api_error")
        /\ \A i \in 1..Len(events) : events[i].type # "complete"
        /\ (via = "route" /\ mode = "buffered") =>
              /\ status = 500
              /\ resBody = ErrorBody("GENERATION_ERROR", GenerationError)
              /\ ended
        /\ (via = "route" /\ mode = "stream") =>
              /\ ended
              /\ events # <<>>
              /\ Last(events) = ErrorEvent(GenerationError)

\* C7  C7_Inv holds in every state, and after a generation failure the
\*     list of issued calls no longer changes.
C7_GenerationFailureTerminates ==
    [](C7_Inv) /\ [][GenerationFailed => calls' = calls]_vars

C7_Witness ==
    /\ GenerationFailed
    /\ via = "route"
    /\ mode = "buffered"
    /\ Last(calls).op = "outline"
    /\ status = 500

\* ------------------------------------------------------------------------
\* C8  No collaborator call is retried: in every run each of the five
\*     calls is issued at most once, also after a RATE_LIMIT or NETWORK
\*     failure.
\* ------------------------------------------------------------------------
C8_NoRetry ==
    /\ \A i, j \in 1..Len(calls) : calls[i].op = calls[j].op => i = j
    /\ \A i \in 1..Len(replies) :
          replies[i] \in {"RATE_LIMIT", "NETWORK_ERROR"} =>
              \A j \in (i + 1)..Len(calls) : calls[j].op # calls[i].op

C8_Witness ==
    /\ pc = "done"
    /\ Len(calls) = 5
    /\ EndedWith(1, "RATE_LIMIT")
    /\ EndedWith(2, "NETWORK_ERROR")

\* ------------------------------------------------------------------------
\* C9  (as stated) In a streaming run in which no phase fails the progress
\*     events carry 5, 20, 35, 40, 55, 60, 95, 100 in this order.
\* ------------------------------------------------------------------------
StreamSucceeded == mode = "stream" /\ outcome = "resolved"

C9_ProgressEndsAt100 ==
    StreamSucceeded => ProgressValues = <<5, 20, 35, 40, 55, 60, 95, 100>>

\* C9  (amended) In a streaming run in which no phase fails the progress
\*     events carry 5, 20, 35, 40, 55, 60, 95 in this order, one event per
\*     checkpoint; no progress event carries 100, the complete event
\*     follows the one with 95.
C9_ProgressCheckpoints ==
    StreamSucceeded =>
        /\ ProgressValues = <<5, 20, 35, 40, 55, 60, 95>>
        /\ Len(events) >= 2
        /\ Last(events).type = "complete"
        /\ events[Len(events) - 1] = ProgressEvent(Checkpoints.p95)

C9_Witness ==
    /\ StreamSucceeded
    /\ via = "route"
    /\ NumChunks = 2

\* ------------------------------------------------------------------------
\* C10 In every streaming run, complete or failed, the percent values of
\*     the progress events are non-decreasing and lie in 0..100.
\* ------------------------------------------------------------------------
C10_ProgressMonotoneBounded ==
    mode = "stream" =>
        LET ps == ProgressValues
        IN /\ \A i \in 1..Len(ps) : ps[i] >= 0 /\ ps[i] <= 100
           /\ \A i \in 1..(Len(ps) - 1) : ps[i] <= ps[i + 1]

C10_Witness ==
    /\ mode = "stream"
    /\ pc = "done"
    /\ error = GenerationError
    /\ Len(ProgressValues) = 4

\* ------------------------------------------------------------------------
\* Vocabulary of the claims about the two modes
\* ------------------------------------------------------------------------

\* the phase a collaborator call belongs to
PhaseOfCall(op) ==
    IF op = "serp" THEN "serp_analysis"
    ELSE IF op \in {"suggestions", "keywordPlan"} THEN "keyword_research"
    ELSE IF op = "outline" THEN "outline"
    ELSE "article"

\* a progress event naming the phase has been emitted
Announced(phase) ==
    \E i \in 1..Len(events) : IsProgress(events[i]) /\ events[i].phase = phase

IsFragment(r) == r.op = "fragment"

\* the fragments the provider's stream has yielded, in order
ProducedFragments ==
    LET fs == SelectSeq(received, IsFragment)
    IN [i \in 1..Len(fs) |-> fs[i].text]

\* the provider has answered the complete() call of this phase
HasReceived(op) == \E i \in 1..Len(received) : received[i].op = op

ReceivedOf(op) == received[CHOOSE i \in 1..Len(received) : received[i].op = op]

\* the article text the provider delivered to this run
DeliveredText ==
    IF mode = "stream" THEN Concat(ProducedFragments) ELSE ReceivedOf("article").text

\* ------------------------------------------------------------------------
\* C11 In streaming mode every collaborator call is issued only after a
\*     progress event naming its phase (serp_analysis, keyword_research,
\*     outline, article) has been emitted: the event is among the events
\*     already written whenever the call is in the list of issued calls,
\*     and the step that issues a call writes no event.
\* ------------------------------------------------------------------------
C11_Inv ==
    mode = "stream" =>
        \A i \in 1..Len(calls) : Announced(PhaseOfCall(calls[i].op))

\* C11 C11_Inv holds in every state, and a step of a streaming run that
\*     issues a call issues one call, writes no event, and the phase of the
\*     call has been announced before the step.
C11_ProgressBeforePhaseCall ==
    /\ [](C11_Inv)
    /\ [][(mode = "stream" /\ calls' # calls) =>
            /\ events' = events
            /\ Len(calls') = Len(calls) + 1
            /\ Announced(PhaseOfCall(calls'[Len(calls')].op))]_vars

C11_Witness ==
    /\ mode = "stream"
    /\ CallOps = PhaseOrder
    /\ pc = "frag_wait"
    /\ Len(SelectSeq(events, IsProgress)) = 6

\* ------------------------------------------------------------------------
\* C12 In streaming mode every chunk event lies after the progress event
\*     with 60 and before the one with 95; the chunk events are the
\*     fragments the provider has yielded, one event per fragment in
\*     fragment order, and a fragment is requested from the provider only
\*     when every fragment yielded so far has been emitted. Buffered runs
\*     emit no chunk event.
\* ------------------------------------------------------------------------
C12_Inv ==
    /\ mode = "buffered" => NumChunks = 0
    /\ mode = "stream" =>
          /\ \A i \in 1..Len(events) :
                IsChunk(events[i]) =>
                   /\ \E j \in 1..(i - 1) :
                         IsProgress(events[j]) /\ events[j].progress = 60
                   /\ \A j \in 1..(i - 1) :
                         IsProgress(events[j]) => events[j].progress <= 60
          /\ pc # "chunk" => ChunkPayloads = ProducedFragments
          /\ pc = "chunk" => ProducedFragments = Append(ChunkPayloads, chunk)

\* C12 C12_Inv holds in every state, and the step in which the provider
\*     yields a fragment starts with every earlier fragment emitted and
\*     writes no event.
C12_ChunksFollowFragments ==
    /\ [](C12_Inv)
    /\ [][received' # received /\ IsFragment(received'[Len(received')]) =>
            /\ ChunkPayloads = ProducedFragments
            /\ events' = events]_vars

C12_Witness ==
    /\ mode = "stream"
    /\ pc = "p95"
    /\ Len(ProducedFragments) = 2
    /\ ProducedFragments[1] # ProducedFragments[2]
    /\ ChunkPayloads = ProducedFragments

\* the streaming run has emitted its complete event
CompleteEmitted ==
    mode = "stream" /\ events # <<>> /\ Last(events).type = "complete"

\* ------------------------------------------------------------------------
\* C13 The article content of a result is the text the provider delivered:
\*     in a successful streaming run the payloads of the chunk events,
\*     concatenated in emission order, equal article.content of the
\*     complete event and the concatenation of the provider's fragments;
\*     in a buffered run article.content is the text the article call
\*     returned. Hence both modes give the same content when the buffered
\*     text is the concatenation of the fragments.
\* ------------------------------------------------------------------------
C13_ChunksConcatToContent ==
    /\ CompleteEmitted =>
          /\ Concat(ChunkPayloads) = Last(events).data.data.article.content
          /\ Concat(ChunkPayloads) = DeliveredText
          /\ result = Last(events).data
    /\ (mode = "buffered" /\ result # NoResult) =>
          /\ HasReceived("article")
          /\ result.data.article.content = DeliveredText

\* a streaming run whose two distinct fragments concatenate to one of the
\* texts the buffered article call returns
C13_Witness ==
    /\ CompleteEmitted
    /\ NumChunks = 2
    /\ ChunkPayloads[1] # ChunkPayloads[2]
    /\ Last(events).data.data.article.content \in ArticleResponses

\* the data of a result, written out from the input, the parsed plan, the
\* parsed outline and the delivered article text
DataOfRun ==
    LET plan  == keywordResearch
        out   == outline
        text  == DeliveredText
        words == countWords(text)
    IN [article |-> [title |-> out.metadata.h1,
                     content |-> text,
                     wordCount |-> words,
                     readingTime |-> ReadingTime(words)],
        seo |-> [metaTitle |-> out.metadata.metaTitle,
                 metaDescription |-> out.metadata.metaDescription,
                 primaryKeyword |-> plan.primaryKeyword.keyword,
                 secondaryKeywords |->
                     [i \in 1..Len(plan.secondaryKeywords) |->
                         plan.secondaryKeywords[i].keyword]],
        outline |-> out,
        keywordResearch |-> plan,
        references |-> extractReferences(text),
        internalLinks |-> IF body.internalLinks.given
                          THEN [i \in 1..Len(body.internalLinks.links) |->
                                  [anchorText |-> body.internalLinks.links[i].title,
                                   url |-> body.internalLinks.links[i].url,
                                   placement |-> "body"]]
                          ELSE <<>>]

\* ------------------------------------------------------------------------
\* C14 The result of a run is one function of the input and of what the
\*     collaborators delivered, the same function in both modes: it
\*     carries the plan and the outline parsed from the answers of their
\*     calls, article, seo, references and internalLinks are derived from
\*     them, from the delivered article text and from the input, and the
\*     token counts of the keyword plan and the outline are the reported
\*     ones. The streaming run hands this result over in its complete
\*     event, the buffered run returns it. The mode enters only through
\*     the way the article text is delivered and the article token count.
\* ------------------------------------------------------------------------
C14_ModesConsistent ==
    /\ result # NoResult =>
          /\ HasReceived("keywordPlan")
          /\ HasReceived("outline")
          /\ result.success
          /\ result.data = DataOfRun
          /\ result.metadata.tokensUsed.keywordResearch = ReceivedOf("keywordPlan").tokens
          /\ result.metadata.tokensUsed.outline = ReceivedOf("outline").tokens
          /\ mode = "stream" => (events # <<>> /\ Last(events) = [type |-> "complete", data |-> result])
          /\ (mode = "buffered" /\ via = "route") => resBody = result
    /\ (outcome = "resolved" \/ CompleteEmitted) => result # NoResult

C14_Witness ==
    /\ CompleteEmitted
    /\ body.internalLinks.given
    /\ result.data.internalLinks # <<>>
    /\ result.data.references # <<>>
    /\ result.data.article.content \in ArticleResponses

\* ------------------------------------------------------------------------
\* Vocabulary of the claims about the parsers
\* ------------------------------------------------------------------------

\* the text handed to the parser that was called
ParsedText == received[1].text

PlanParserCalled == received # <<>> /\ received[1].op = "keywordPlan"

OutlineParserCalled == received # <<>> /\ received[1].op = "outline"

\* the text holds no {...} span, or the span is not one JSON value
ParseFails(text) ==
    \/ ~\E i, j \in 1..Len(text) : i < j /\ text[i] = "{" /\ text[j] = "}"
    \/ JSONParse(SubSeq(text, FirstOpen(text), LastClose(text))) = SyntaxError

\* ------------------------------------------------------------------------
\* C15 Neither parser raises, whatever the text: a call of
\*     parseKeywordResearchResponse or parseOutlineResponse always returns.
\* ------------------------------------------------------------------------
C15_ParsersNeverRaise ==
    (PlanParserCalled \/ OutlineParserCalled) => (pc = "returned" /\ error = "")

\* ------------------------------------------------------------------------
\* C16 For every text without a parsable {...} span and every topic the
\*     plan parser returns a plan with all its members present, with
\*     primaryKeyword.keyword equal to the topic, with secondaryKeywords,
\*     longTailClusters, questions, contentStructure.sections and
\*     competitiveAnalysis.contentGaps empty, and with
\*     contentStructure.targetWordCount 2500.
\* ------------------------------------------------------------------------
C16_FallbackPlanFromTopic ==
    (PlanParserCalled /\ ParseFails(ParsedText)) =>
        /\ pc = "returned"
        /\ DOMAIN keywordResearch =
              {"primaryKeyword", "secondaryKeywords", "longTailClusters",
               "questions", "contentStructure", "competitiveAnalysis"}
        /\ keywordResearch.primaryKeyword.keyword = body.topic
        /\ keywordResearch.secondaryKeywords = <<>>
        /\ keywordResearch.longTailClusters = <<>>
        /\ keywordResearch.questions = <<>>
        /\ DOMAIN keywordResearch.contentStructure =
              {"h1", "metaTitle", "metaDescription", "targetWordCount", "sections"}
        /\ keywordResearch.contentStructure.sections = <<>>
        /\ keywordResearch.contentStructure.targetWordCount = 2500
        /\ "contentGaps" \in DOMAIN keywordResearch.competitiveAnalysis
        /\ keywordResearch.competitiveAnalysis.contentGaps = <<>>

\* a text with braces around something that is no JSON, and the empty topic
C16_Witness ==
    /\ PlanParserCalled
    /\ pc = "returned"
    /\ ParsedText = <<"{", "prose", "}">>
    /\ body.topic = ""
    /\ keywordResearch.primaryKeyword.keyword = ""

\* ------------------------------------------------------------------------
\* C17 When the outline text has no parsable {...} span, the outline
\*     parser returns an outline whose metadata are the primary keyword,
\*     h1, metaTitle, metaDescription and targetWordCount of the plan it
\*     was given and whose bodies are empty.
\* ------------------------------------------------------------------------
C17_FallbackOutlineFromPlan ==
    (OutlineParserCalled /\ ParseFails(ParsedText)) =>
        /\ pc = "returned"
        /\ outline.metadata =
              [primaryKeyword |-> keywordResearch.primaryKeyword.keyword,
               h1 |-> keywordResearch.contentStructure.h1,
               metaTitle |-> keywordResearch.contentStructure.metaTitle,
               metaDescription |-> keywordResearch.contentStructure.metaDescription,
               targetWordCount |-> keywordResearch.contentStructure.targetWordCount]
        /\ outline.keyTakeaway = [mainAnswer |-> "", bullets |-> <<>>]
        /\ outline.introduction.paragraphs = <<>>
        /\ outline.conclusion.paragraphs = <<>>
        /\ outline.sections = <<>>
        /\ outline.faq = <<>>
        /\ outline.citations = <<>>

\* ------------------------------------------------------------------------
\* C18 For every article text the references extractReferences returns
\*     are numbered 1, 2, ..., n in order of appearance, n being the
\*     number of references returned, also when numbered lines without a
\*     link were dropped; a second call on the same text returns the same
\*     list.
\* ------------------------------------------------------------------------
C18_ReferencesNumberedConsecutively ==
    /\ pc \in {"extracted", "extracted_again"} =>
          \A i \in 1..Len(result.references) : result.references[i].number = i
    /\ pc = "extracted_again" => result.again = result.references

\* words of a stripped text: the places where a run of non-blank characters
\* begins, and the 199 further words of every "para"
WordsIn(stripped) ==
    Cardinality({ i \in 1..Len(stripped) :
                    stripped[i] # "sp" /\ (i = 1 \/ stripped[i - 1] = "sp") })
      + 199 * Cardinality({ i \in 1..Len(stripped) : stripped[i] = "para" })

\* ------------------------------------------------------------------------
\* C19 In every result, of either mode, article.wordCount is the number of
\*     maximal runs of non-blank characters left in article.content after
\*     the characters # * _ ` [ ] ( ) are removed, and article.readingTime
\*     is "<m> min" with m the least integer not below wordCount / 200:
\*     0 for no word, 1 for 1 to 200 words, 2 for 201 words.
\* ------------------------------------------------------------------------
C19_WordCountAndReadingTime ==
    result # NoResult =>
        LET a == result.data.article
        IN /\ a.wordCount = WordsIn(StripAll(a.content))
           /\ a.readingTime.unit = "min"
           /\ 200 * a.readingTime.minutes >= a.wordCount
           /\ 200 * (a.readingTime.minutes - 1) < a.wordCount
           /\ a.wordCount = 0 => a.readingTime.minutes = 0
           /\ a.wordCount \in 1..200 => a.readingTime.minutes = 1
           /\ a.wordCount = 201 => a.readingTime.minutes = 2

\* a result of 201 words
C19_Witness ==
    /\ result # NoResult
    /\ outcome = "resolved"
    /\ result.data.article.wordCount = 201
    /\ result.data.article.readingTime = [minutes |-> 2, unit |-> "min"]

ReportedTokens(op) == IF HasReceived(op) THEN ReceivedOf(op).tokens ELSE 0

\* m is the least integer with m >= n / 4
IsCeilOfQuarter(m, n) == 4 * m >= n /\ 4 * (m - 1) < n

\* ------------------------------------------------------------------------
\* C20 Token usage is kept per phase: at every moment of a run
\*     tokensUsed.keywordResearch and tokensUsed.outline are the counts the
\*     provider reported for the keyword-plan call and for the outline call
\*     (0 while the call has not returned) unless the run has failed, and
\*     the result carries them;
\*     the article count of a buffered result is the count reported for the
\*     article call, that of a streaming result is the least integer not
\*     below a quarter of the length of the concatenated article text.
\* ------------------------------------------------------------------------
C20_TokensPerPhase ==
    /\ error = "" =>
          /\ tokensUsed.keywordResearch = ReportedTokens("keywordPlan")
          /\ tokensUsed.outline = ReportedTokens("outline")
    /\ result # NoResult =>
          /\ result.metadata.tokensUsed.keywordResearch = ReportedTokens("keywordPlan")
          /\ result.metadata.tokensUsed.outline = ReportedTokens("outline")
          /\ mode = "buffered" =>
                /\ HasReceived("article")
                /\ result.metadata.tokensUsed.article = ReceivedOf("article").tokens
          /\ mode = "stream" =>
                IsCeilOfQuarter(result.metadata.tokensUsed.article,
                                CharLength(Concat(ProducedFragments)))

\* a streaming result whose text length is no multiple of 4 and whose
\* three counts differ
C20_Witness ==
    /\ CompleteEmitted
    /\ CharLength(result.data.article.content) % 4 # 0
    /\ result.metadata.tokensUsed.keywordResearch = 1000
    /\ result.metadata.tokensUsed.outline = 0
    /\ result.metadata.tokensUsed.article > 0

\* ------------------------------------------------------------------------
\* Vocabulary of the claims about the route entry
\* ------------------------------------------------------------------------

\* the request body is malformed: no topic text, a targetWordCount outside
\* 500..10000, or a link whose url is not a URL
Malformed(b) ==
    \/ b.topic = ""
    \/ (b.targetWordCount # Absent /\ (b.targetWordCount < 500 \/ b.targetWordCount > 10000))
    \/ \E i \in 1..Len(b.internalLinks.links) :
          b.internalLinks.links[i].url \notin {LinkA.url, LinkB.url}

BackendKeyMissing ==
    \/ (selector = "gemini" /\ ~env.gemini)
    \/ (selector # "gemini" /\ ~env.openai)

\* ------------------------------------------------------------------------
\* C24 A generation client without a credential cannot be constructed:
\*     when the key of the chosen backend is missing the constructor
\*     throws, the agent never exists, and no complete or stream call (no
\*     call at all) is ever issued; the run ends with the constructor's
\*     error.
\* ------------------------------------------------------------------------
C24_AdapterFailsAtConstruction ==
    BackendKeyMissing =>
        /\ agent # "constructed"
        /\ calls = <<>>
        /\ replies = <<>>
        /\ received = <<>>
        /\ outcome = "none"
        /\ pc \in {"start", "construct", "done"}
        /\ (agent = "failed" /\ env.dataforseo) =>
              /\ pc = "done"
              /\ error = (IF selector = "gemini"
                          THEN "Google AI API key not configured"
                          ELSE "OpenAI API key not configured")

\* the gemini client was constructed without its key while the other
\* credentials are present
C24_Witness ==
    /\ selector = "gemini"
    /\ env = [dataforseo |-> TRUE, openai |-> TRUE, gemini |-> FALSE]
    /\ agent = "failed"
    /\ pc = "done"
    /\ error = "Google AI API key not configured"

\* ------------------------------------------------------------------------
\* C26 In both modes the keyword-plan call and the outline call are
\*     complete() calls with temperature 0.3, and the article call has
\*     temperature 0.7, as complete() in a buffered run and as stream() in
\*     a streaming run (temperatures in tenths); the temperature depends
\*     on nothing but the phase.
\* ------------------------------------------------------------------------
C26_TemperaturePerPhase ==
    \A i \in 1..Len(calls) :
        /\ calls[i].op \in {"keywordPlan", "outline"} =>
              (calls[i].temperature = 3 /\ calls[i].method = "complete")
        /\ calls[i].op = "article" =>
              /\ calls[i].temperature = 7
              /\ calls[i].method = (IF mode = "stream" THEN "stream" ELSE "complete")

\* a buffered run on the gemini backend has issued its three generation calls
C26_Witness ==
    /\ mode = "buffered"
    /\ selector = "gemini"
    /\ Len(calls) = 5
    /\ calls[3].temperature = 3
    /\ calls[4].temperature = 3
    /\ calls[5].temperature = 7

\* ------------------------------------------------------------------------
\* C30 internalLinks of a result is the list of links of the input, one
\*     record per link in the same order, with anchorText the title, url
\*     the url and placement "body"; it is the empty list when the input
\*     has no internalLinks. It is a function of the input alone, whatever
\*     the provider returned.
\* ------------------------------------------------------------------------
C30_InternalLinksEchoed ==
    result # NoResult =>
        LET given == body.internalLinks.links
            links == result.data.internalLinks
        IN /\ Len(links) = Len(given)
           /\ \A i \in 1..Len(given) :
                 /\ DOMAIN links[i] = {"anchorText", "url", "placement"}
                 /\ links[i].anchorText = given[i].title
                 /\ links[i].url = given[i].url
                 /\ links[i].placement = "body"
           /\ ~body.internalLinks.given => links = <<>>

\* a buffered result for an input with two links
C30_Witness ==
    /\ mode = "buffered"
    /\ outcome = "resolved"
    /\ Len(body.internalLinks.links) = 2
    /\ result.data.internalLinks[1].anchorText = "A"
    /\ result.data.internalLinks[2].url = "https://example.com/b"

\* ------------------------------------------------------------------------
\* Vocabulary of the claims about the research adapter
\* ------------------------------------------------------------------------

\* number of organic entries among the first p entries of a provider list
OrganicUpTo(items, p) == Cardinality({ q \in 1..p : items[q].type = "organic" })

\* getSERPResults has returned a snapshot
SerpReturned == pc = "returned" /\ request.op = "getSERPResults"

\* the operation ended by throwing a DataForSEOError with this code
RaisedWith(code) ==
    /\ pc = "raised"
    /\ returned.threw
    /\ returned.error.name = "DataForSEOError"
    /\ returned.error.code = code

\* ------------------------------------------------------------------------
\* C28 The snapshot getSERPResults returns holds the first 10 organic
\*     entries of the provider's list, in the provider's order: as many
\*     items as there are organic entries but never more than 10, the k-th
\*     item being the k-th organic entry of the list with rank k, whatever
\*     its rank in the provider's list and however many other entries
\*     stand before it; without a result object the snapshot has
\*     totalResults 0 and no items.
\* ------------------------------------------------------------------------
C28_OrganicFilteredThenTruncated ==
    SerpReturned =>
        LET given == delivery.payload.items
            snap  == returned.value
            total == OrganicUpTo(given, Len(given))
        IN /\ Len(snap.items) = (IF total <= 10 THEN total ELSE 10)
           /\ \A k \in 1..Len(snap.items) :
                 /\ snap.items[k].rank = k
                 /\ \E p \in 1..Len(given) :
                       /\ given[p].type = "organic"
                       /\ OrganicUpTo(given, p) = k
                       /\ snap.items[k].url = given[p].url
           /\ ~delivery.payload.hasResult =>
                 (snap.totalResults = 0 /\ snap.items = <<>>)

\* a list of 12 entries that starts with another entry and has 11 organic
\* ones: the snapshot has 10 items, the first with provider rank 2
C28_Witness ==
    /\ SerpReturned
    /\ Len(delivery.payload.items) = 12
    /\ delivery.payload.items[1].type = "paid"
    /\ OrganicUpTo(delivery.payload.items, 12) = 11
    /\ Len(returned.value.items) = 10
    /\ returned.value.items[1].url = 2

\* ------------------------------------------------------------------------
\* C29 Every failed request of the research adapter ends with a
\*     DataForSEOError that carries one code: AUTH_ERROR for status 401,
\*     RATE_LIMIT for 429, API_ERROR for every other status outside
\*     200..299, NETWORK_ERROR when fetch rejects or the body of a
\*     successful answer cannot be read; a request with a readable
\*     successful answer does not fail, and an error with one of the first
\*     three codes is never turned into NETWORK_ERROR.
\* ------------------------------------------------------------------------
C29_ErrorTaxonomy ==
    pc # "request" =>
        LET d  == delivery
            ok == d.fetch = "responds" /\ d.status >= 200 /\ d.status <= 299
        IN /\ d.fetch = "rejects" => RaisedWith("NETWORK_ERROR")
           /\ (d.fetch = "responds" /\ d.status = 401) => RaisedWith("AUTH_ERROR")
           /\ (d.fetch = "responds" /\ d.status = 429) => RaisedWith("RATE_LIMIT")
           /\ (d.fetch = "responds" /\ ~ok /\ d.status \notin {401, 429}) =>
                 RaisedWith("API_ERROR")
           /\ (ok /\ ~d.json) => RaisedWith("NETWORK_ERROR")
           /\ (ok /\ d.json) => (pc # "raised" /\ ~returned.threw)
           /\ returned.threw =>
                 /\ returned.error.name = "DataForSEOError"
                 /\ returned.error.code \in {"AUTH_ERROR", "RATE_LIMIT", "API_ERROR", "NETWORK_ERROR"}

\* a 429 answer to the keyword-suggestions request
C29_Witness ==
    /\ request.op = "getKeywordSuggestions"
    /\ delivery.status = 429
    /\ RaisedWith("RATE_LIMIT")
    /\ returned.error.statusCode = 429

\* ------------------------------------------------------------------------
\* C21 Whenever the consumer of the fragment stream of OpenAIClient.stream
\*     has stopped, by leaving the iteration early, after a failure, or at
\*     the end of the stream, the reader of the provider's response is not
\*     left locked on an open stream: it was never obtained, or the stream
\*     has ended, failed or been cancelled.
\* ------------------------------------------------------------------------
C21_AbandonReleasesReader ==
    pc \in {"abandoned", "threw", "finished"} => reader # "locked"

\* ------------------------------------------------------------------------
\* Vocabulary of the claim about the single-prompt backend
\* ------------------------------------------------------------------------

IsNotAssistant(m) == m.role # "assistant"

\* the text of the first message with this role once the assistant
\* messages are taken out of the request, "" when there is none
TextOf(role) ==
    LET ms  == SelectSeq(request.messages, IsNotAssistant)
        idx == { i \in 1..Len(ms) : ms[i].role = role }
    IN IF idx = {} THEN ""
       ELSE ms[CHOOSE i \in idx : \A j \in idx : i <= j].content

\* ------------------------------------------------------------------------
\* C27 The prompt GeminiClient sends is the system text, the delimiter
\*     "\n\n---\n\n" and the user text, in this order, and the user text
\*     alone when the request has no system text; the system and the user
\*     text are those of the first message of their role; the prompt is the
\*     same with the assistant messages removed from the request; complete
\*     and stream send the same prompt for the same request.
\* ------------------------------------------------------------------------
C27_FlattenedPrompt ==
    /\ \A i \in 1..Len(calls) :
          /\ TextOf("system") # "" =>
                calls[i].prompt = <<TextOf("system"), "\n\n---\n\n", TextOf("user")>>
          /\ TextOf("system") = "" => calls[i].prompt = <<TextOf("user")>>
    /\ pc = "sent" =>
          /\ Len(calls) = 2
          /\ calls[1].op = "generateContent"
          /\ calls[2].op = "generateContentStream"
          /\ calls[1].prompt = calls[2].prompt

\* a request that opens with an assistant message, sent by both operations
C27_Witness ==
    /\ pc = "sent"
    /\ request.messages = << [role |-> "assistant", content |-> "p"],
                             [role |-> "system", content |-> "q"],
                             [role |-> "user", content |-> "p"] >>
    /\ calls[2].prompt = <<"q", "\n\n---\n\n", "p">>

\* ------------------------------------------------------------------------
\* Vocabulary: the two-run server
\* ------------------------------------------------------------------------

\* the backend the selector of run r stands for
SelectedBackend(r) == IF runs[r].selector = "gemini" THEN "gemini" ELSE "openai"

\* run r as it arrived
Arrived(r) ==
    NewRun(runs[r].mode, runs[r].selector,
           [body |-> runs[r].body, script |-> runs[r].script])

Suspended(r) == runs[r].pc \notin {"start", "done"}

\* ------------------------------------------------------------------------
\* C23: The generation backend of a run is chosen once, when the run
\* starts, from the request's provider selector: gemini exactly when the
\* selector equals 'gemini', openai for any other selector; every generation
\* call of the run goes to that backend, whatever the other run on the
\* server selected and however the two runs are interleaved.
\* ------------------------------------------------------------------------
C23_BackendChosenPerRun ==
    \A r \in RunIds :
        /\ runs[r].aiProvider \in {"none", SelectedBackend(r)}
        /\ Suspended(r) => runs[r].aiProvider = SelectedBackend(r)
        /\ \A i \in 1..Len(runs[r].calls) :
              runs[r].calls[i].op \in GenerationOps
                  => runs[r].calls[i].backend = SelectedBackend(r)

\* a run that selected gemini and a run with an unknown selector have both
\* issued their three generation calls and are both still running
C23_Witness ==
    \E r \in RunIds, q \in RunIds :
        /\ runs[r].selector = "gemini"
        /\ runs[q].selector = "other"
        /\ Suspended(r)
        /\ Suspended(q)
        /\ Len(runs[r].calls) = 5
        /\ Len(runs[q].calls) = 5
        /\ runs[r].calls[5].backend = "gemini"
        /\ runs[q].calls[5].backend = "openai"

\* ------------------------------------------------------------------------
\* C25: Runs executing concurrently share no mutable state: in every
\* interleaving of the segments of two runs, the events a run has emitted
\* are a prefix of the events it emits when executed alone against the same
\* collaborator responses, and once it has finished its events, its result
\* and its HTTP response equal those of the run executed alone.
\* ------------------------------------------------------------------------
C25_RunsAreIsolated ==
    \A r \in RunIds :
        LET alone == RunAlone(Arrived(r), env)
        IN /\ IsPrefix(runs[r].events, alone.events)
           /\ runs[r].pc = "done" =>
                 /\ runs[r].events = alone.events
                 /\ runs[r].result = alone.result
                 /\ runs[r].status = alone.status
                 /\ runs[r].resBody = alone.resBody
                 /\ runs[r].error = alone.error

\* a streaming run has finished with its complete event while a run with
\* another topic and another backend is suspended in its outline call, and
\* both have written to the console
C25_Witness ==
    \E r \in RunIds, q \in RunIds :
        /\ runs[r].mode = "stream"
        /\ runs[r].pc = "done"
        /\ runs[r].result.success
        /\ Len(runs[r].events) > 0
        /\ Last(runs[r].events).type = "complete"
        /\ runs[q].pc = "outline_wait"
        /\ runs[q].body.topic # runs[r].body.topic
        /\ runs[q].aiProvider # runs[r].aiProvider
        /\ Len(log) >= 3

\* ------------------------------------------------------------------------
\* Vocabulary: the provider's event stream
\* ------------------------------------------------------------------------

\* content deltas of the data lines of a whole event stream, in order
RECURSIVE DeltasOfLines(_)
DeltasOfLines(lines) ==
    IF lines = <<>> THEN <<>>
    ELSE (IF Yields(Head(lines)) THEN <<DeltaContent(Head(lines))>> ELSE <<>>)
             \o DeltasOfLines(Tail(lines))

DeltasOfStream == DeltasOfLines(SplitEventLines(delivery.text, <<>>))

\* ------------------------------------------------------------------------
\* C34 The fragments OpenAIClient.stream has yielded are, for every way the
\*     transport splits the event stream into reads, a prefix of the content
\*     deltas of the data lines of the stream, and when the stream has been
\*     read to its end they are all of them, the delta of a last data line
\*     without a newline included; [DONE] lines and unparsable lines
\*     contribute nothing.
\* ------------------------------------------------------------------------
C34_FragmentsReconstituteDeltas ==
    (request # NoRequest /\ reader # "none") =>
        /\ IsPrefix(returned.fragments, DeltasOfStream)
        /\ pc = "finished" => returned.fragments = DeltasOfStream

\* ------------------------------------------------------------------------
\* C35 Both structured parsers parse the span from the first "{" to the
\*     last "}" of the generated text and nothing else: when that span is
\*     one JSON value the parser returns this value, whatever stands before
\*     and after the span, and when there is no span or the span is not one
\*     JSON value (two objects separated by prose), the parser returns its
\*     fallback object.
\* ------------------------------------------------------------------------
C35_GreedySpanOrFallback ==
    /\ PlanParserCalled =>
          /\ pc = "returned"
          /\ keywordResearch =
                (IF ParseFails(ParsedText)
                 THEN FallbackPlan(body.topic)
                 ELSE JSONParse(SubSeq(ParsedText, FirstOpen(ParsedText),
                                       LastClose(ParsedText))))
    /\ OutlineParserCalled =>
          /\ pc = "returned"
          /\ outline =
                (IF ParseFails(ParsedText)
                 THEN FallbackOutline(keywordResearch)
                 ELSE JSONParse(SubSeq(ParsedText, FirstOpen(ParsedText),
                                       LastClose(ParsedText))))

\* Vocabulary: the lines of the References section

\* where the first "## References" stands, 0 when the text has none
HeadingAt(text) ==
    IF \E i \in 1..Len(text) : text[i] = "refs"
    THEN CHOOSE i \in 1..Len(text) :
            text[i] = "refs" /\ \A j \in 1..(i - 1) : text[j] # "refs"
    ELSE 0

\* the places behind the heading where a line begins with a list marker
\* and holds a link before its end
NumberedLinkLines(text) ==
    { i \in (HeadingAt(text) + 1)..Len(text) :
        /\ HeadingAt(text) > 0
        /\ text[i] = "num"
        /\ text[i - 1] = "nl"
        /\ \E j \in i..Len(text) :
              /\ text[j] \in LinkTokens
              /\ \A k \in i..j : text[k] # "nl" }

\* the first link at or behind place i
LinkAfter(text, i) ==
    text[CHOOSE j \in i..Len(text) :
            text[j] \in LinkTokens /\ \A k \in i..(j - 1) : text[k] \notin LinkTokens]

\* ------------------------------------------------------------------------
\* C36 The references returned are, in order, the first links of the lines
\*     that begin with a list marker, hold a link and stand behind the
\*     first "## References" of the text: one reference per such line,
\*     with the label and the url of the line's first link; a numbered
\*     link line before the heading gives no reference and a text without
\*     the heading gives the empty list.
\* ------------------------------------------------------------------------
C36_ReferencesFromSectionOnly ==
    pc \in {"extracted", "extracted_again"} =>
        LET refs == result.references
            starts == NumberedLinkLines(articleContent)
        IN /\ Len(refs) = Cardinality(starts)
           /\ \A i \in starts :
                 LET k == Cardinality({ x \in starts : x <= i })
                 IN /\ refs[k].source = LinkOf(LinkAfter(articleContent, i)).source
                    /\ refs[k].url = LinkOf(LinkAfter(articleContent, i)).url
           /\ HeadingAt(articleContent) = 0 => refs = <<>>

C36_Witness ==
    /\ pc = "extracted"
    /\ articleContent = <<"num", "link", "nl", "refs", "nl", "num", "link2", "link">>
    /\ Len(result.references) = 1
    /\ result.references[1].source = "b"
    /\ result.references[1].url = "v"

\* Vocabulary: what a failure shows to the client

\* an answer or event that names its kind and carries a message
Described(x) == Has(x, "code") /\ x.code # "" /\ Has(x, "message")

\* ------------------------------------------------------------------------
\* C32 Every failure the client sees carries a non-empty code and a
\*     message: the body of every 400 and 500 answer (validation,
\*     generation, the application's error handler) and every error event
\*     of a stream; and every request that ends in a failure ends with such
\*     an answer or such an event.
\* ------------------------------------------------------------------------
C32_FailuresCarryCodeAndMessage ==
    /\ status \in {400, 500} => Described(resBody)
    /\ \A i \in 1..Len(events) : events[i].type = "error" => Described(events[i])
    /\ (via = "route" /\ ended /\ (error # "" \/ status >= 400)) =>
          \/ Described(resBody)
          \/ (events # <<>> /\ Last(events).type = "error")

C32_Witness ==
    /\ via = "route"
    /\ request = [raw |-> "garbage"]
    /\ pc = "done"
    /\ status = 500
    /\ resBody.code = "INTERNAL_ERROR"
    /\ ended

\* ------------------------------------------------------------------------
\* C38 In the streaming route an HTTP 500 answer is sent only while nothing
\*     has been written, and a failure after the headers went out ends the
\*     stream with an error event as its last event. The headers are
\*     flushed before the agent is constructed, so every failure of a
\*     request that passed validation, a failing constructor included, is
\*     reported by an error event and never by an HTTP 500 body.
\* ------------------------------------------------------------------------
C38_StreamFailuresAreErrorEvents ==
    (via = "route" /\ mode = "stream") =>
        /\ status = 500 => (~headersSent /\ events = <<>>)
        /\ (headersSent /\ error # "") =>
              /\ ended
              /\ events # <<>>
              /\ Last(events).type = "error"
        /\ (GenerateArticleSchema(body) /\ pc \notin {"received", "start"}) =>
              /\ headersSent
              /\ status = 200
              /\ resBody = NoBody
              /\ error # "" => (ended /\ events # <<>> /\ Last(events).type = "error")

C38_Witness ==
    /\ via = "route"
    /\ mode = "stream"
    /\ GenerateArticleSchema(body)
    /\ agent = "failed"
    /\ status = 200
    /\ resBody = NoBody
    /\ ended
    /\ Len(events) = 1
    /\ events[1].type = "error"

\* Vocabulary: twin runs

\* what a run shows to its collaborators and to its client
CallsOf(r) == runs[r].calls

EventsOf(r) == runs[r].events

ResultOf(r) == runs[r].result

AnswerOf(r) == [status |-> runs[r].status, resBody |-> runs[r].resBody]

\* the two requests agree on every field but the two flags
DifferOnlyInFlags ==
    /\ pc = "twins"
    /\ runs[1].body.topic = runs[2].body.topic
    /\ runs[1].body.internalLinks = runs[2].body.internalLinks
    /\ runs[1].body.targetWordCount = runs[2].body.targetWordCount
    /\ runs[1].body.contentType = runs[2].body.contentType

\* the two requests agree on every field but targetWordCount and contentType
DifferOnlyInLengthAndType ==
    /\ pc = "twins"
    /\ runs[1].body.topic = runs[2].body.topic
    /\ runs[1].body.internalLinks = runs[2].body.internalLinks
    /\ runs[1].body.includeKeywordResearch = runs[2].body.includeKeywordResearch
    /\ runs[1].body.includeFAQ = runs[2].body.includeFAQ

PlanFellBack(r) ==
    /\ runs[r].script.plan.o = "ok"
    /\ ParseFails(runs[r].script.plan.text)
    /\ runs[r].keywordResearch # Unset

\* ------------------------------------------------------------------------
\* C39 targetWordCount and contentType of the request reach no prompt and
\*     no result: two runs whose requests differ in these fields only and
\*     whose collaborators give the same answers have issued the same
\*     calls with the same arguments and end with the same result; and the
\*     plan a run falls back to has the target length 2500, whatever
\*     targetWordCount its request carries.
\* ------------------------------------------------------------------------
C39_LengthAndTypeAreInert ==
    /\ DifferOnlyInLengthAndType =>
          /\ CallsOf(1) = CallsOf(2)
          /\ ResultOf(1) = ResultOf(2)
    /\ pc = "twins" =>
          \A r \in RunIds :
              PlanFellBack(r) =>
                  /\ runs[r].keywordResearch.contentStructure.targetWordCount = 2500
                  /\ runs[r].result # NoResult =>
                        runs[r].result.data.keywordResearch.contentStructure.targetWordCount = 2500

\* two finished runs, one without the two fields and one that asks for a
\* guide of 3000 words, that both fell back to the plan of 2500 words
C39_Witness ==
    /\ DifferOnlyInLengthAndType
    /\ runs[1].body.targetWordCount = Absent /\ runs[1].body.contentType = "none"
    /\ runs[2].body.targetWordCount = 3000 /\ runs[2].body.contentType = "guide"
    /\ runs[1].pc = "done" /\ runs[2].pc = "done"
    /\ PlanFellBack(2)
    /\ Len(CallsOf(2)) = 5
    /\ ResultOf(2) # NoResult
    /\ ResultOf(2).data.keywordResearch.contentStructure.targetWordCount = 2500

\* Vocabulary: the plan a keyword-plan answer holds

\* the JSON value of the {...} span of a text, SyntaxError when there is none
SpanValue(text) ==
    IF ParseFails(text) THEN SyntaxError
    ELSE JSONParse(SubSeq(text, FirstOpen(text), LastClose(text)))

\* a JSON value with the members of a plan that a result reads
IsPlan(v) == Has(v, "primaryKeyword") /\ Has(v, "secondaryKeywords")

C37_NumericParametersPassThrough ==
    (pc = "sent" /\ request # NoRequest) =>
        /\ request.maxTokens # Absent => returned.maxTokens = request.maxTokens
        /\ request.temperature # Absent => returned.temperature = request.temperature
        /\ request.maxTokens = Absent =>
              returned.maxTokens =
                  (IF request.backend = "openai" THEN OpenAIConfig(locals.config)
                   ELSE GeminiConfig(locals.config)).maxTokens
        /\ request.temperature = Absent =>
              returned.temperature =
                  (IF request.backend = "openai" THEN OpenAIConfig(locals.config)
                   ELSE GeminiConfig(locals.config)).temperature

====
